---- MODULE Spec2Model ----
(***************************************************************************)
(* slicesync: the client side of a slice synchronisation.                  *)
(*                                                                         *)
(* Slicesync (slicesync.go) resolves its arguments, downloads directly     *)
(* when there is no alike file, and otherwise runs NaiveDiffs (header      *)
(* reading, diffsBuilder, total hashes) over the local and the remote hash *)
(* dumps, DownloadDiffs over the resulting plan and the final hash check.  *)
(* Files are sequences of bytes; hash dumps are sequences of text lines.   *)
(***************************************************************************)
EXTENDS Integers, Sequences, FiniteSets, TLC

\* ------------------------------------------------------------------ bounds
MaxLen == 3
MaxSlice == 3

\* ------------------------------------------------------- program constants
AUTOSIZE == 0
Version == 1

HasherName == "sha1"
SliceHasherName == "adler32+md5"

\* --------------------------------------------------------------- the world
Bytes == {0, 1}

RECURSIVE SeqsUpTo(_)
SeqsUpTo(n) ==
    IF n = 0 THEN {<<>>}
    ELSE LET shorter == SeqsUpTo(n - 1)
         IN shorter \cup {Append(s, b) : s \in {t \in shorter : Len(t) = n - 1}, b \in Bytes}

Contents == SeqsUpTo(MaxLen)
Slices == 1..MaxSlice

\* a file of the local file system: whether it exists, and its bytes
File(content) == [exists |-> TRUE, data |-> content]
Absent == [exists |-> FALSE, data |-> <<>>]

\* a hash dump (.slicesync) as served or published: whether there is a valid
\* one, and its lines
Dump(lines) == [exists |-> TRUE, lines |-> lines]
NoDump == [exists |-> FALSE, lines |-> <<>>]

\* A path is a sequence of components; the empty path is Go's "".
EmptyPath == <<>>
RemoteName == <<"dir", "f">>
DestName == <<"d">>
AlikeName == <<"a">>
\* filepath.Base
Base(path) == IF path = EmptyPath THEN "." ELSE path[Len(path)]

\* the last path component of the remote file, as a local path
BaseName == <<Base(RemoteName)>>
LocalPaths == {RemoteName, BaseName, DestName, AlikeName}

\* a pre-existing destination: none, or a file of MaxLen + 1 bytes
OldDest == [i \in 1..(MaxLen + 1) |-> 1]

\* min returns the minimum between a and b
min(a, b) == IF b < a THEN b ELSE a

\* ------------------------------------------------------------------ hashes
\* Digests are collision free in the model: a digest is the number whose
\* binary digits are a leading 1 followed by the bytes hashed.
RECURSIVE Digest(_)
Digest(s) == IF s = <<>> THEN 1 ELSE 2 * Digest(SubSeq(s, 1, Len(s) - 1)) + s[Len(s)]

\* ------------------------------------------------------------- hash dumps
Line(tag, val) == [tag |-> tag, val |-> val]

RECURSIVE sliceLines(_, _, _)
sliceLines(content, slice, pos) ==
    IF pos >= Len(content) THEN <<>>
    ELSE LET toread == IF slice > Len(content) - pos THEN Len(content) - pos ELSE slice
         IN <<Line("hash", Digest(SubSeq(content, pos + 1, pos + toread)))>>
            \o sliceLines(content, slice, pos + toread)

\* hashDump without its size > 0 test: the total is written for every file
hashDumpAlwaysTotal(filename, slice, content) ==
    << Line("Version", Version),
       Line("Filename", Base(filename)),
       Line("Slice", slice),
       Line("Slice Hashing", SliceHasherName),
       Line("Length", Len(content)) >>
    \o sliceLines(content, slice, 0) \o <<Line(HasherName, Digest(content))>>

\* hashDump: header, one line per slice, and the total when size > 0
hashDump(filename, slice, content) ==
    << Line("Version", Version),
       Line("Filename", Base(filename)),
       Line("Slice", slice),
       Line("Slice Hashing", SliceHasherName),
       Line("Length", Len(content)) >>
    \o (IF Len(content) > 0
        THEN sliceLines(content, slice, 0) \o <<Line(HasherName, Digest(content))>>
        ELSE <<>>)

\* the loop of hashDump over a file that has only the bytes of content to
\* read while size bytes are asked for, without the return after the error
RECURSIVE readLinesOn(_, _, _, _)
readLinesOn(content, slice, size, pos) ==
    IF pos >= size
    THEN <<Line(HasherName, Digest(SubSeq(content, 1, min(size, Len(content)))))>>
    ELSE LET toread == IF slice > size - pos THEN size - pos ELSE slice
         IN (IF pos + toread > Len(content)
             THEN <<Line("Error", "EOF")>>
             ELSE <<Line("hash", Digest(SubSeq(content, pos + 1, pos + toread)))>>)
            \o readLinesOn(content, slice, size, pos + toread)

\* the loop of hashDump over a file that has only the bytes of content to
\* read while size bytes are asked for: io.CopyN fails on the first slice
\* that is not whole, the error is written and hashDump returns
RECURSIVE readLines(_, _, _, _)
readLines(content, slice, size, pos) ==
    IF pos >= size
    THEN <<Line(HasherName, Digest(SubSeq(content, 1, size)))>>
    ELSE LET toread == IF slice > size - pos THEN size - pos ELSE slice
         IN IF pos + toread > Len(content)
            THEN <<Line("Error", "EOF")>>
            ELSE <<Line("hash", Digest(SubSeq(content, pos + 1, pos + toread)))>>
                 \o readLines(content, slice, size, pos + toread)

\* hashDump on a file said to be of size bytes
hashDumpRead(filename, slice, size, content) ==
    << Line("Version", Version),
       Line("Filename", Base(filename)),
       Line("Slice", slice),
       Line("Slice Hashing", SliceHasherName),
       Line("Length", size) >>
    \o (IF size > 0 THEN readLines(content, slice, size, 0) ELSE <<>>)

\* a bufio.Reader over a hash dump: the lines and the number already read
Reader(lines) == [lines |-> lines, at |-> 0]
NoReader == Reader(<<>>)

\* readString returns the next string or an error
readString(r) ==
    IF r.at >= Len(r.lines)
    THEN [err |-> "EOF", line |-> Line("", 0), r |-> r]
    ELSE LET line == r.lines[r.at + 1]
             next == [r EXCEPT !.at = r.at + 1]
         IN IF line.tag = "Error"
            THEN [err |-> "Error:", line |-> Line("", 0), r |-> next]
            ELSE [err |-> "", line |-> line, r |-> next]

\* readAttribute returns the next attribute named name or an error
readAttribute(r, name) ==
    LET s == readString(r)
    IN IF s.err # "" THEN [err |-> s.err, val |-> 0, r |-> s.r]
       ELSE IF s.line.tag # name THEN [err |-> "expected", val |-> 0, r |-> s.r]
       ELSE [err |-> "", val |-> s.line.val, r |-> s.r]

\* readHeader without the comparison of the Slice attribute
readHeaderAnySlice(r, filename, slice) ==
    LET v == readAttribute(r, "Version")
        f == readAttribute(v.r, "Filename")
        s == readAttribute(f.r, "Slice")
        h == readAttribute(s.r, "Slice Hashing")
        l == readAttribute(h.r, "Length")
    IN IF v.err # "" THEN [err |-> v.err, size |-> 0, r |-> v.r]
       ELSE IF v.val # Version THEN [err |-> "Version mismatch", size |-> 0, r |-> v.r]
       ELSE IF f.err # "" THEN [err |-> f.err, size |-> 0, r |-> f.r]
       ELSE IF f.val # Base(filename) THEN [err |-> "Filename mismatch", size |-> 0, r |-> f.r]
       ELSE IF s.err # "" THEN [err |-> s.err, size |-> 0, r |-> s.r]
       ELSE IF h.err # "" THEN [err |-> h.err, size |-> 0, r |-> h.r]
       ELSE IF h.val # SliceHasherName
            THEN [err |-> "Slice Hashing mismatch", size |-> 0, r |-> h.r]
       ELSE IF l.err # "" THEN [err |-> l.err, size |-> 0, r |-> l.r]
       ELSE [err |-> "", size |-> l.val, r |-> l.r]

\* readHeader checks Version, Filename, Slice, Slice Hashing and returns Length
readHeader(r, filename, slice) ==
    LET v == readAttribute(r, "Version")
        f == readAttribute(v.r, "Filename")
        s == readAttribute(f.r, "Slice")
        h == readAttribute(s.r, "Slice Hashing")
        l == readAttribute(h.r, "Length")
    IN IF v.err # "" THEN [err |-> v.err, size |-> 0, r |-> v.r]
       ELSE IF v.val # Version THEN [err |-> "Version mismatch", size |-> 0, r |-> v.r]
       ELSE IF f.err # "" THEN [err |-> f.err, size |-> 0, r |-> f.r]
       ELSE IF f.val # Base(filename) THEN [err |-> "Filename mismatch", size |-> 0, r |-> f.r]
       ELSE IF s.err # "" THEN [err |-> s.err, size |-> 0, r |-> s.r]
       ELSE IF s.val # slice THEN [err |-> "Slice mismatch", size |-> 0, r |-> s.r]
       ELSE IF h.err # "" THEN [err |-> h.err, size |-> 0, r |-> h.r]
       ELSE IF h.val # SliceHasherName
            THEN [err |-> "Slice Hashing mismatch", size |-> 0, r |-> h.r]
       ELSE IF l.err # "" THEN [err |-> l.err, size |-> 0, r |-> l.r]
       ELSE [err |-> "", size |-> l.val, r |-> l.r]

\* ------------------------------------------------------------------- files
\* Does the file exist?
exists(fs, path) == fs[path].exists

\* os.OpenFile(name, O_CREATE|O_WRONLY): creates an empty file when there is
\* none and leaves an existing file's bytes as they are
openFile(fs, path) ==
    IF ~fs[path].exists THEN [fs EXCEPT ![path] = File(<<>>)] ELSE fs

\* a write of bytes at file offset at, through an open file
writeAt(content, at, bytes) ==
    LET n == IF at + Len(bytes) > Len(content) THEN at + Len(bytes) ELSE Len(content)
    IN [i \in 1..n |-> IF i > at /\ i <= at + Len(bytes) THEN bytes[i - at] ELSE content[i]]

\* sliceFile: the number of bytes to read from offset before the end of file
sliceFile(max, offset, slice) ==
    IF slice = AUTOSIZE \/ (offset + slice) > max THEN max - offset ELSE slice

\* dump: the bytes the LimitedReadCloser over a file delivers for a slice
dump(content, offset, slice) ==
    LET toread == sliceFile(Len(content), offset, slice)
    IN IF toread > 0 THEN SubSeq(content, offset + 1, offset + toread) ELSE <<>>

\* LocalHashNDump.Dump: the stream of a slice of a local file
localDump(fs, path, offset, slice) ==
    IF ~fs[path].exists THEN [err |-> "open", bytes |-> <<>>]
    ELSE [err |-> "", bytes |-> dump(fs[path].data, offset, slice)]

\* RemoteHashNDump.Dump: GET /dump/<filename>?offset=pos&slice=slice, which
\* the server answers with its own Dump of the file
remoteDump(content, pos, slice) ==
    [err |-> "", bytes |-> dump(content, pos, slice)]

\* ------------------------------------------------------------------- diffs
Diff(offset, size, different) == [Offset |-> offset, Size |-> size, Different |-> different]

NewDiffs(filename, alike, slice, size) ==
    [Filename |-> filename, Alike |-> alike, Slice |-> slice, Size |-> size,
     Differences |-> 0, Diffs |-> <<>>, Hash |-> 0, AlikeHash |-> 0]

NilDiffs == NewDiffs(EmptyPath, EmptyPath, 0, 0)

setLastSize(ds, size) == [ds EXCEPT ![Len(ds)].Size = size]

\* diffStarts without the special Diffs array init case: no leading equal
\* segment is opened when the first difference is found past offset 0
diffStartsNoSeed(d, start, pos, segment) ==
    LET closed == IF Len(d.Diffs) > 0
                  THEN [d EXCEPT !.Diffs = setLastSize(@, pos - start)]
                  ELSE d
    IN [closed EXCEPT !.Diffs = Append(@, Diff(pos, 0, TRUE)),
                      !.Differences = @ + segment]

\* diffsBuilder, "diff starts": a different slice at pos after equal ones
diffStarts(d, start, pos, segment) ==
    LET seeded == IF Len(d.Diffs) = 0 /\ pos > 0
                  THEN [d EXCEPT !.Diffs = Append(@, Diff(start, 0, FALSE))]
                  ELSE d
        closed == IF Len(seeded.Diffs) > 0
                  THEN [seeded EXCEPT !.Diffs = setLastSize(@, pos - start)]
                  ELSE seeded
    IN [closed EXCEPT !.Diffs = Append(@, Diff(pos, 0, TRUE)),
                      !.Differences = @ + segment]

\* diffsBuilder, "diffs ends": an equal slice at pos after different ones
diffEnds(d, start, pos) ==
    [d EXCEPT !.Diffs = Append(setLastSize(@, pos - start), Diff(pos, 0, FALSE)),
              !.Differences = @ + (pos - start)]

\* diffsClose without the remaining remote bytes
diffsCloseNoTail(d, start, pos, lsize) ==
    IF Len(d.Diffs) = 0
    THEN [d EXCEPT !.Diffs = Append(@, Diff(0, pos, FALSE))]
    ELSE [d EXCEPT !.Diffs = setLastSize(@, pos - start)]

\* diffsClose with the single equal segment sized by the remote length
\* instead of by the position the loop reached
diffsCloseWholeLocal(d, start, pos, lsize) ==
    LET closed == IF Len(d.Diffs) = 0
                  THEN [d EXCEPT !.Diffs = Append(@, Diff(0, d.Size, FALSE))]
                  ELSE [d EXCEPT !.Diffs = setLastSize(@, pos - start)]
    IN IF lsize < closed.Size
       THEN [closed EXCEPT !.Diffs = Append(@, Diff(lsize, closed.Size - lsize, TRUE)),
                           !.Differences = @ + (closed.Size - lsize)]
       ELSE closed

\* diffsBuilder after the loop: the last segment is closed at pos and the
\* remote bytes past the end of the local file are appended
diffsClose(d, start, pos, lsize) ==
    LET closed == IF Len(d.Diffs) = 0
                  THEN [d EXCEPT !.Diffs = Append(@, Diff(0, pos, FALSE))]
                  ELSE [d EXCEPT !.Diffs = setLastSize(@, pos - start)]
    IN IF lsize < closed.Size
       THEN [closed EXCEPT !.Diffs = Append(@, Diff(lsize, closed.Size - lsize, TRUE)),
                           !.Differences = @ + (closed.Size - lsize)]
       ELSE closed

\* ------------------------------------------------------------------- state
VARIABLES
    argDest,    \* Slicesync's destfile argument ("" when omitted)
    argAlike,   \* Slicesync's alike argument ("" when omitted)
    slice,      \* Slicesync's slice argument
    files,      \* the local file system: path -> file
    rfile,      \* the bytes of the remote file
    ldump,      \* the published hash dump of the local alike
    rdump,      \* the hash dump the server has for the remote file
    pc,         \* where Slicesync is
    local,      \* NaiveDiffs: reader of the local hash dump
    remote,     \* NaiveDiffs: reader of the remote hash dump
    lsize,      \* NaiveDiffs: Length read from the local header
    diffs,      \* the Diffs under construction, then under download
    indiff,     \* diffsBuilder locals
    segment,
    start,
    pos,
    next,       \* DownloadDiffs: index of the next Diff to copy
    sink,       \* DownloadDiffs: the bytes written to the file and the hasher
    tampered,   \* whether the alike changed under the running sync
    ret,        \* what Slicesync returned
    call,       \* a function of the library under call: its name and arguments
    result,     \* what the function under call returned
    store,      \* the served directory: file name -> file
    shadow,     \* the .slicesync shadow tree: file name -> hash dump file
    hd,         \* where HashDir (and the HashFile it runs) is
    env,        \* the clock of the served directory and its history
    served,     \* the hash dump last served to a reader
    pipe,       \* an in-process pipe, its producer and its consumer
    gor         \* the goroutines and channels of the concurrent Slicesync

clientVars == <<argDest, argAlike, slice, files, rfile, ldump, rdump, pc, local, remote,
                lsize, diffs, indiff, segment, start, pos, next, sink, tampered, ret>>
funcVars == <<call, result>>
storeVars == <<store, shadow, hd, env, served>>
concVars == <<pipe, gor>>
otherVars == <<funcVars, storeVars, concVars>>
vars == <<clientVars, otherVars>>

NoCall == [fn |-> "none"]
NoResult == [fn |-> "none"]

\* no directory is being served: nothing stored, HashDir not started
NoServed == [name |-> <<>>, lines |-> <<>>]
StoreIdle ==
    /\ store = <<>>
    /\ shadow = <<>>
    /\ hd = [pc |-> "off"]
    /\ env = [clock |-> 0, changes |-> 0, runs |-> 0, dirty |-> FALSE]
    /\ served = NoServed

\* nothing runs concurrently
ConcIdle ==
    /\ pipe = [wpc |-> "off"]
    /\ gor = [main |-> "off"]

argVars == <<argDest, argAlike, slice>>
diffVars == <<local, remote, lsize, indiff, segment, start, pos>>
copyVars == <<next, sink>>

\* Slicesync's resolution of its optional arguments
destfile == IF argDest = EmptyPath THEN RemoteName ELSE argDest
alike == IF argAlike = EmptyPath THEN destfile ELSE argAlike

NoReturn == [status |-> "running", err |-> "", diffs |-> NilDiffs]
Failure(err) == [status |-> "error", err |-> err, diffs |-> NilDiffs]
Success(d) == [status |-> "ok", err |-> "", diffs |-> d]

Init ==
    /\ argDest \in {EmptyPath, DestName}
    /\ argAlike \in {EmptyPath, AlikeName}
    /\ slice \in Slices
    /\ rfile \in Contents
    /\ \E a \in {Absent} \cup {File(c) : c \in Contents}, d \in {Absent, File(OldDest)} :
          files = [p \in LocalPaths |->
                     IF p = alike THEN a ELSE IF p = destfile THEN d ELSE Absent]
    /\ \E have \in {<<TRUE, TRUE>>, <<FALSE, TRUE>>, <<TRUE, FALSE>>} :
          /\ ldump = IF have[1] /\ files[alike].exists
                     THEN Dump(hashDump(alike, slice, files[alike].data))
                     ELSE NoDump
          /\ rdump = IF have[2] \/ ~files[alike].exists
                     THEN Dump(hashDump(RemoteName, slice, rfile))
                     ELSE NoDump
    /\ pc = "Slicesync"
    /\ local = NoReader
    /\ remote = NoReader
    /\ lsize = 0
    /\ diffs = NilDiffs
    /\ indiff = FALSE
    /\ segment = 0
    /\ start = 0
    /\ pos = 0
    /\ next = 1
    /\ sink = <<>>
    /\ tampered = FALSE
    /\ ret = NoReturn
    /\ call = NoCall
    /\ result = NoResult
    /\ StoreIdle
    /\ ConcIdle

Return(r) ==
    /\ pc' = "done"
    /\ ret' = r

\* ---------------------------------------------------------------- actions
\* Download: the whole remote file is copied over the start of destfile
Download(fs, path, content) ==
    [fs EXCEPT ![path] = File(writeAt(openFile(fs, path)[path].data, 0, content))]

\* Slicesync step 0: no alike file, direct download
SlicesyncDirect ==
    /\ pc = "Slicesync"
    /\ ~exists(files, alike)
    /\ files' = Download(files, destfile, rfile)
    /\ LET downloaded == Len(rfile)
           d == NewDiffs(RemoteName, EmptyPath, slice, downloaded)
       IN /\ diffs' = [d EXCEPT !.Differences = downloaded]
          /\ Return(Success(diffs'))
    /\ UNCHANGED <<otherVars, argVars, rfile, ldump, rdump, diffVars, copyVars, tampered>>

\* NaiveDiffs up to the diff building loop: both streams are opened and both
\* headers read
NaiveDiffsOpen ==
    /\ pc = "Slicesync"
    /\ exists(files, alike)
    /\ LET lh == readHeader(Reader(ldump.lines), alike, slice)
           rh == readHeader(Reader(rdump.lines), RemoteName, slice)
       IN IF ~ldump.exists
          THEN /\ Return(Failure("Error opening local diff source"))
               /\ UNCHANGED <<diffs, diffVars>>
          ELSE IF ~rdump.exists
          THEN /\ Return(Failure("Error opening remote diff source"))
               /\ UNCHANGED <<diffs, diffVars>>
          ELSE IF lh.err # ""
          THEN /\ Return(Failure("Local diff source header error"))
               /\ UNCHANGED <<diffs, diffVars>>
          ELSE IF rh.err # ""
          THEN /\ Return(Failure("Remote diff source header error"))
               /\ UNCHANGED <<diffs, diffVars>>
          ELSE /\ local' = lh.r
               /\ remote' = rh.r
               /\ lsize' = lh.size
               /\ diffs' = NewDiffs(RemoteName, alike, slice, rh.size)
               /\ indiff' = FALSE
               /\ segment' = slice
               /\ start' = 0
               /\ pos' = 0
               /\ pc' = "diffsBuilder"
               /\ UNCHANGED ret
    /\ UNCHANGED <<otherVars, argVars, files, rfile, ldump, rdump, copyVars, tampered>>

\* one round of diffsBuilder's loop
diffsBuilderLoop ==
    /\ pc = "diffsBuilder"
    /\ pos < min(lsize, diffs.Size)
    /\ LET end == min(lsize, diffs.Size)
           seg == IF pos + segment > end THEN end - pos ELSE segment
           l == readString(local)
           r == readString(remote)
       IN IF l.err # ""
          THEN /\ Return(Failure("DiffBuilder error"))
               /\ local' = l.r
               /\ UNCHANGED <<remote, diffs, indiff, segment, start, pos>>
          ELSE IF r.err # ""
          THEN /\ Return(Failure("DiffBuilder error"))
               /\ local' = l.r
               /\ remote' = r.r
               /\ UNCHANGED <<diffs, indiff, segment, start, pos>>
          ELSE /\ local' = l.r
               /\ remote' = r.r
               /\ segment' = seg
               /\ pos' = pos + seg
               /\ IF ~indiff /\ l.line # r.line
                  THEN /\ diffs' = diffStarts(diffs, start, pos, seg)
                       /\ start' = pos
                       /\ indiff' = TRUE
                  ELSE IF indiff /\ l.line = r.line
                  THEN /\ diffs' = diffEnds(diffs, start, pos)
                       /\ start' = pos
                       /\ indiff' = FALSE
                  ELSE UNCHANGED <<diffs, start, indiff>>
               /\ UNCHANGED <<pc, ret>>
    /\ UNCHANGED <<otherVars, argVars, files, rfile, ldump, rdump, lsize, copyVars, tampered>>

\* diffsBuilder after its loop
diffsBuilderEnd ==
    /\ pc = "diffsBuilder"
    /\ ~(pos < min(lsize, diffs.Size))
    /\ diffs' = diffsClose(diffs, start, pos, lsize)
    /\ pc' = "totals"
    /\ UNCHANGED <<otherVars, argVars, files, rfile, ldump, rdump, local, remote, lsize, indiff,
                   segment, start, pos, copyVars, tampered, ret>>

\* NaiveDiffs after diffsBuilder: the total hashes of both streams
NaiveDiffsTotals ==
    /\ pc = "totals"
    /\ LET l == readAttribute(local, HasherName)
           r == readAttribute(remote, HasherName)
       IN IF diffs.Size > 0 /\ Len(diffs.Diffs) = 0
          THEN /\ Return(Failure("DiffBuilder error"))
               /\ UNCHANGED <<diffs, local, remote>>
          ELSE IF l.err # ""
          THEN /\ Return(Failure("Local file hash error"))
               /\ local' = l.r
               /\ UNCHANGED <<diffs, remote>>
          ELSE IF r.err # ""
          THEN /\ Return(Failure("Remote file hash error"))
               /\ local' = l.r
               /\ remote' = r.r
               /\ UNCHANGED diffs
          ELSE /\ local' = l.r
               /\ remote' = r.r
               /\ diffs' = [diffs EXCEPT !.AlikeHash = l.val, !.Hash = r.val]
               /\ pc' = "DownloadDiffs"
               /\ UNCHANGED ret
    /\ UNCHANGED <<otherVars, argVars, files, rfile, ldump, rdump, lsize, indiff, segment, start,
                   pos, copyVars, tampered>>

\* the alike file is rewritten by someone else while the sync runs: one of
\* its bytes changes after the diffs were calculated
Tamper ==
    /\ pc = "DownloadDiffs"
    /\ ~tampered
    /\ \E i \in 1..Len(files[alike].data) :
          files' = [files EXCEPT ![alike].data[i] = 1 - @]
    /\ tampered' = TRUE
    /\ UNCHANGED <<otherVars, argVars, rfile, ldump, rdump, pc, diffVars, diffs, copyVars, ret>>

\* DownloadDiffs: destfile is opened for writing, created when missing
DownloadDiffsOpen ==
    /\ pc = "DownloadDiffs"
    /\ files' = openFile(files, destfile)
    /\ next' = 1
    /\ sink' = <<>>
    /\ pc' = "copy"
    /\ UNCHANGED <<otherVars, argVars, rfile, ldump, rdump, diffVars, diffs, tampered, ret>>

\* io.CopyN that reports no error when the source runs out
copyNUnchecked(source, n) ==
    [err |-> "", bytes |-> IF Len(source) < n THEN source ELSE SubSeq(source, 1, n)]

\* io.CopyN(sink, source, n): what is copied, and whether the source ran out
copyN(source, n) ==
    IF Len(source) < n THEN [err |-> "EOF", bytes |-> source]
    ELSE [err |-> "", bytes |-> SubSeq(source, 1, n)]

\* DownloadDiffs: one Diff is copied from the remote file or from the alike
DownloadDiffsCopy ==
    /\ pc = "copy"
    /\ next <= Len(diffs.Diffs)
    /\ LET diff == diffs.Diffs[next]
           source == IF diff.Different
                     THEN remoteDump(rfile, diff.Offset, diff.Size)
                     ELSE localDump(files, diffs.Alike, diff.Offset, diff.Size)
           copied == copyN(source.bytes, diff.Size)
       IN IF source.err # ""
          THEN /\ Return(Failure("Download error"))
               /\ UNCHANGED <<files, copyVars>>
          ELSE /\ files' = [files EXCEPT ![destfile].data = writeAt(@, Len(sink), copied.bytes)]
               /\ sink' = sink \o copied.bytes
               /\ IF copied.err # ""
                  THEN /\ Return(Failure("Download error"))
                       /\ UNCHANGED next
                  ELSE /\ next' = next + 1
                       /\ UNCHANGED <<pc, ret>>
    /\ UNCHANGED <<otherVars, argVars, rfile, ldump, rdump, diffVars, diffs, tampered>>

\* Slicesync without its step 3
checkHashesSkipped(localHash, d) == Success(d)

\* Slicesync step 3: the hash of what was written against the remote total
checkHashes(localHash, d) ==
    IF localHash # d.Hash THEN Failure("Hash check failed") ELSE Success(d)

SlicesyncCheck ==
    /\ pc = "copy"
    /\ next > Len(diffs.Diffs)
    /\ Return(checkHashes(Digest(sink), diffs))
    /\ UNCHANGED <<otherVars, argVars, files, rfile, ldump, rdump, diffVars, diffs, copyVars, tampered>>

Next ==
    \/ SlicesyncDirect
    \/ NaiveDiffsOpen
    \/ diffsBuilderLoop
    \/ diffsBuilderEnd
    \/ NaiveDiffsTotals
    \/ Tamper
    \/ DownloadDiffsOpen
    \/ DownloadDiffsCopy
    \/ SlicesyncCheck

Spec == Init /\ [][Next]_vars

\* ------------------------------------------------------------- properties
\* diffsBuilder has returned and its plan is in diffs.Diffs
Built == pc = "totals"

\* the lengths of the alike and of the remote file
Ll == Len(files[alike].data)
Lr == Len(rfile)

\* the aligned slices: bytes below end == min(Ll, Lr), in slices of size slice
AlignedEnd == min(Ll, Lr)
AlignedSlices == {i \in 0..MaxLen : i * slice < AlignedEnd}
HeaderLines == Len(hashDump(EmptyPath, 1, <<>>))
LocalSliceHash(i) == ldump.lines[HeaderLines + i + 1]
RemoteSliceHash(i) == rdump.lines[HeaderLines + i + 1]

RECURSIVE SumSizes(_)
SumSizes(p) == IF p = <<>> THEN 0 ELSE p[1].Size + SumSizes(Tail(p))

RECURSIVE RemoteBytes(_)
RemoteBytes(p) ==
    IF p = <<>> THEN 0
    ELSE (IF p[1].Different THEN p[1].Size ELSE 0) + RemoteBytes(Tail(p))

\* C1: the plan diffsBuilder builds starts at offset 0 (P1), is contiguous
\* (P2), ends at the remote length (P3), ends with the Remote segment
\* [Ll, Lr) when the alike is shorter (P5), and its sizes sum to Lr.
C1_PlanCoversRemote ==
    Built =>
        LET p == diffs.Diffs
        IN /\ Len(p) > 0
           /\ p[1].Offset = 0
           /\ \A i \in 1..(Len(p) - 1) : p[i].Offset + p[i].Size = p[i + 1].Offset
           /\ p[Len(p)].Offset + p[Len(p)].Size = Lr
           /\ Ll < Lr => p[Len(p)] = Diff(Ll, Lr - Ll, TRUE)
           /\ SumSizes(p) = Lr

C1_Witness ==
    /\ Built
    /\ Ll < Lr
    /\ Len(diffs.Diffs) >= 3

\* C2: in the plan diffsBuilder builds, any two adjacent segments have
\* different sources.
C2_AdjacentSourcesDiffer ==
    Built =>
        \A i \in 1..(Len(diffs.Diffs) - 1) :
            diffs.Diffs[i].Different # diffs.Diffs[i + 1].Different

\* C3: every aligned slice lies in a segment of the compared region that is
\* Local exactly when the two slice hashes are equal and Remote exactly when
\* they differ, and within the compared region consecutive segments
\* alternate (slices of one kind are merged).
C3_AlignedClassification ==
    Built =>
        LET p == diffs.Diffs
            Within(k) == p[k].Offset + p[k].Size <= AlignedEnd
            Covers(k, i) == /\ Within(k)
                            /\ p[k].Offset <= i * slice
                            /\ min((i + 1) * slice, AlignedEnd) <= p[k].Offset + p[k].Size
        IN /\ \A i \in AlignedSlices :
                /\ \E k \in 1..Len(p) : Covers(k, i)
                /\ \A k \in 1..Len(p) :
                      Covers(k, i) =>
                          (p[k].Different <=> LocalSliceHash(i) # RemoteSliceHash(i))
           /\ \A k \in 1..(Len(p) - 1) :
                Within(k + 1) => p[k].Different # p[k + 1].Different

C3_Witness ==
    /\ Built
    /\ \E k \in 1..Len(diffs.Diffs) :
          /\ diffs.Diffs[k].Different
          /\ diffs.Diffs[k].Size >= 2 * slice
          /\ diffs.Diffs[k].Offset + diffs.Diffs[k].Size <= AlignedEnd
    /\ \E k \in 1..Len(diffs.Diffs) :
          ~diffs.Diffs[k].Different /\ diffs.Diffs[k].Size > 0

AllAgree == \A i \in AlignedSlices : LocalSliceHash(i) = RemoteSliceHash(i)

\* C4: when the hashes agree at every aligned slice the plan is the single
\* segment Local(0, Lr) if Ll >= Lr and [Local(0, Ll), Remote(Ll, Lr - Ll)]
\* if Ll < Lr.
C4_AgreeingFingerprints ==
    (Built /\ AllAgree) =>
        diffs.Diffs = IF Ll >= Lr
                      THEN <<Diff(0, Lr, FALSE)>>
                      ELSE <<Diff(0, Ll, FALSE), Diff(Ll, Lr - Ll, TRUE)>>

C4_Witness ==
    /\ Built
    /\ AllAgree
    /\ 0 < Ll
    /\ Ll < Lr

\* C5: for an empty alike (a hash dump of header lines only) and a remote
\* file that is not empty, the naive diff succeeds with the single segment
\* Remote(0, Lr).
C5_EmptyAlike ==
    (ldump.exists /\ rdump.exists /\ Len(ldump.lines) = HeaderLines /\ Lr > 0) =>
        /\ Built => diffs.Diffs = <<Diff(0, Lr, TRUE)>>
        /\ pc \in {"DownloadDiffs", "copy", "done"} => diffs.Diffs = <<Diff(0, Lr, TRUE)>>
        /\ pc = "done" => ret.err \notin {"DiffBuilder error", "Local file hash error",
                                          "Remote file hash error"}

NaiveDiffsErrors ==
    {"Local diff source header error", "Remote diff source header error",
     "DiffBuilder error", "Local file hash error", "Remote file hash error"}

\* C6: for two well formed hash dumps of the same slice size and any two
\* lengths, NaiveDiffs returns a plan rather than an error, with Hash and
\* AlikeHash the remote and the local total.
C6_NaiveDiffsReturnsPlan ==
    (ldump.exists /\ rdump.exists) =>
        /\ pc = "done" => ret.err \notin NaiveDiffsErrors
        /\ (pc = "DownloadDiffs" /\ ~tampered) =>
              /\ diffs.Hash = Digest(rfile)
              /\ diffs.AlikeHash = Digest(files[alike].data)

\* C7: the Differences count of a diff result is the number of bytes in its
\* Remote segments.
C7_DifferencesAreRemoteBytes ==
    Built => diffs.Differences = RemoteBytes(diffs.Diffs)

\* C8: whenever Slicesync returns success the destination file holds exactly
\* the bytes of the remote file (and so has its length).
C8_RoundTrip ==
    (pc = "done" /\ ret.status = "ok") => files[destfile].data = rfile

\* the total line of the remote hash dump
RemoteTotal == rdump.lines[Len(rdump.lines)]

\* all the Diffs of a calculated plan were copied
CopiedAll == diffs.Hash # 0 /\ next > Len(diffs.Diffs)

\* C9: on the diff path Slicesync returns success only if the hash of the
\* bytes copied, in plan order, is the total of the remote hash dump; when it
\* is not, Slicesync returns the hash check error and no plan.
C9_HashChecked ==
    (pc = "done" /\ diffs.Alike # EmptyPath) =>
        /\ ret.status = "ok" =>
              /\ CopiedAll
              /\ RemoteTotal.tag = HasherName
              /\ Digest(sink) = RemoteTotal.val
        /\ (CopiedAll /\ Digest(sink) # RemoteTotal.val) =>
              ret = Failure("Hash check failed")

C9_Witness ==
    /\ pc = "done"
    /\ diffs.Alike # EmptyPath
    /\ CopiedAll
    /\ Digest(sink) # RemoteTotal.val
    /\ ret.err = "Hash check failed"

\* the direct download was taken
Direct == diffs.Filename = RemoteName /\ diffs.Alike = EmptyPath

\* C10: without an alike file Slicesync downloads the whole remote file and
\* returns a plan of exactly one segment Remote(0, downloaded length).
C10_DirectDownloadPlan ==
    (pc = "done" /\ Direct) =>
        /\ ret.status = "ok"
        /\ ret.diffs.Diffs = <<Diff(0, Lr, TRUE)>>

\* what a successful sync does establish: the start of destfile is the
\* remote file
Aux_PrefixRoundTrip ==
    (pc = "done" /\ ret.status = "ok") =>
        /\ Len(files[destfile].data) >= Lr
        /\ SubSeq(files[destfile].data, 1, Lr) = rfile

\* C11: without a destination argument a successful Slicesync has written
\* the last path component of the remote file name (remote dir/f is written
\* to f), and without an alike argument the alike is the destination.
C11_DefaultDestination ==
    (pc = "done" /\ ret.status = "ok") =>
        /\ argDest = EmptyPath =>
              /\ destfile = BaseName
              /\ files[BaseName].exists
        /\ argAlike = EmptyPath => alike = destfile

\* ------------------------------------------------- the library's functions
\* Slicesync is not running
ClientIdle ==
    /\ argDest = EmptyPath
    /\ argAlike = EmptyPath
    /\ slice = 1
    /\ files = [p \in LocalPaths |-> Absent]
    /\ rfile = <<>>
    /\ ldump = NoDump
    /\ rdump = NoDump
    /\ pc = "idle"
    /\ local = NoReader
    /\ remote = NoReader
    /\ lsize = 0
    /\ diffs = NilDiffs
    /\ indiff = FALSE
    /\ segment = 0
    /\ start = 0
    /\ pos = 0
    /\ next = 1
    /\ sink = <<>>
    /\ tampered = FALSE
    /\ ret = NoReturn

\* the calls of hashDump: a file name, a slice size and the file's bytes
hashDumpCalls ==
    [fn : {"hashDump"}, filename : {RemoteName, DestName}, slice : Slices,
     content : Contents]

\* hashDump is called on a file and writes its lines
hashDumpCall ==
    /\ call.fn = "hashDump"
    /\ result = NoResult
    /\ result' = [fn |-> "hashDump",
                  lines |-> hashDump(call.filename, call.slice, call.content)]
    /\ UNCHANGED <<clientVars, storeVars, concVars, call>>

\* C12: the hash dump of a file of length L for slice size S is the five
\* header lines Version, Filename (base name), Slice, Slice Hashing and
\* Length = L, then ceil(L / S) slice hash lines, the i-th over the bytes
\* [i * S, min((i + 1) * S, L)), then, exactly when L > 0, the total hash of
\* the whole file.
C12_HashDumpLayout ==
    result.fn = "hashDump" =>
        LET L == Len(call.content)
            S == call.slice
            n == (L + S - 1) \div S
            lines == result.lines
        IN /\ Len(lines) = 5 + n + (IF L > 0 THEN 1 ELSE 0)
           /\ lines[1] = Line("Version", Version)
           /\ lines[2] = Line("Filename", call.filename[Len(call.filename)])
           /\ lines[3] = Line("Slice", S)
           /\ lines[4] = Line("Slice Hashing", SliceHasherName)
           /\ lines[5] = Line("Length", L)
           /\ \A i \in 0..(n - 1) :
                 lines[6 + i] =
                     Line("hash", Digest(SubSeq(call.content, i * S + 1, min((i + 1) * S, L))))
           /\ L > 0 => lines[Len(lines)] = Line(HasherName, Digest(call.content))

C12_Witness ==
    /\ result.fn = "hashDump"
    /\ Len(call.content) = 3
    /\ call.slice = 2
    /\ Len(result.lines) = 8

\* the writers a hash dump can come from: this one, one of another Version,
\* and one naming another slice hasher in its header
Writers == {"this", "version", "hashing"}

\* the hash dump a writer produces for a file
writtenBy(writer, filename, size, content) ==
    LET lines == hashDump(filename, size, content)
    IN CASE writer = "this" -> lines
         [] writer = "version" -> [lines EXCEPT ![1].val = Version + 1]
         [] writer = "hashing" -> [lines EXCEPT ![4].val = HasherName]

\* the calls of readHeader: the hash dump of a file as some writer wrote it,
\* and the file name and the slice the caller expects
readHeaderCalls ==
    [fn : {"readHeader"}, writer : Writers,
     wname : {RemoteName, BaseName, DestName}, wslice : Slices, content : Contents,
     filename : {RemoteName, BaseName, DestName}, slice : Slices]

\* readHeader is called on a reader over the hash dump
readHeaderCall ==
    /\ call.fn = "readHeader"
    /\ result = NoResult
    /\ LET lines == writtenBy(call.writer, call.wname, call.wslice, call.content)
           h == readHeader(Reader(lines), call.filename, call.slice)
       IN result' = [fn |-> "readHeader", err |-> h.err, size |-> h.size]
    /\ UNCHANGED <<clientVars, storeVars, concVars, call>>

HeaderMismatch ==
    {"Version mismatch", "Filename mismatch", "Slice mismatch", "Slice Hashing mismatch"}

\* the caller of readHeader expects what the writer of the hash dump emitted
HeaderExpected ==
    /\ call.writer = "this"
    /\ call.filename[Len(call.filename)] = call.wname[Len(call.wname)]
    /\ call.slice = call.wslice

\* C13: readHeader over the hash dump written for a file returns the
\* file's Length when the base name and the slice expected, the version and
\* the slice hasher name are the ones written, and a mismatch error with no
\* length as soon as one of the four differs.
C13_HeaderRoundTrip ==
    result.fn = "readHeader" =>
        IF HeaderExpected
        THEN result.err = "" /\ result.size = Len(call.content)
        ELSE result.err \in HeaderMismatch /\ result.size = 0

C13_Witness ==
    /\ result.fn = "readHeader"
    /\ ~HeaderExpected
    /\ call.writer = "this"
    /\ call.filename[Len(call.filename)] = call.wname[Len(call.wname)]
    /\ Len(call.content) > 0
    /\ result.err = "Slice mismatch"

\* ------------------------------------------------- the rolling checksum
\* the largest prime smaller than 65536
mod == 65521

\* A uint32 is a pair <<high, low>> of 16-bit halves.
Half == 2^16
U32(n) == <<n \div Half, n % Half>>

\* x + y and x - y in uint32 arithmetic, wrapping around
add32(x, y) ==
    LET low == x[2] + y[2]
        high == x[1] + y[1] + (low \div Half)
    IN <<high % Half, low % Half>>

sub32(x, y) ==
    LET low == x[2] - y[2]
        high == x[1] - y[1] - (IF low < 0 THEN 1 ELSE 0)
    IN <<(high + 2 * Half) % Half, (low + Half) % Half>>

\* x % mod, through 65536 % mod
mod32(x) == (x[1] * (Half % mod) + x[2]) % mod

\* x > y
gt32(x, y) == x[1] > y[1] \/ (x[1] = y[1] /\ x[2] > y[2])

\* (0xffffffff - 255) / 2
reduceAt == U32(2147483520)

\* x | y on 16-bit numbers
RECURSIVE or16(_, _)
or16(x, y) ==
    IF x = 0 THEN y
    ELSE IF y = 0 THEN x
    ELSE 2 * or16(x \div 2, y \div 2) + (IF x % 2 = 1 \/ y % 2 = 1 THEN 1 ELSE 0)

\* a digest after Reset
digestReset == [a |-> U32(1), b |-> U32(0)]

\* update: one byte added to the running checksum a, b
update(d, pi) ==
    LET a1 == add32(d.a, U32(pi))
        b1 == add32(d.b, a1)
    IN IF gt32(b1, reduceAt)
       THEN [a |-> U32(mod32(a1)), b |-> U32(mod32(b1))]
       ELSE [a |-> a1, b |-> b1]

\* finish: the 32-bit checksum corresponding to a, b
finish(d) ==
    LET reduced == IF d.b[1] > 0 \/ d.b[2] >= mod
                   THEN [a |-> U32(mod32(d.a)), b |-> U32(mod32(d.b))]
                   ELSE d
    IN <<or16(reduced.b[2], reduced.a[1]), reduced.a[2]>>

\* roll: the window is displaced by one position
roll(d, window, oldest, newest) ==
    LET a1 == add32(d.a, sub32(U32(newest), U32(oldest)))
        b1 == add32(d.b, sub32(sub32(a1, U32(window * oldest)), U32(1)))
    IN IF gt32(b1, reduceAt)
       THEN [a |-> U32(mod32(a1)), b |-> U32(mod32(b1))]
       ELSE [a |-> a1, b |-> b1]

\* the windows and the bytes of the streams checksummed
SmallWindow == 3
BigWindow == 4104
MaxRolls == 3
Windows == (1..SmallWindow) \cup {BigWindow}
RollBytes == {0, 1, 255}

\* the calls on a rolling digest: the window is loaded with window bytes
\* fill, then rolled over the bytes that follow
Roll32Calls == [fn : {"Roll32"}, window : Windows, fill : RollBytes]

\* the digest under call, the bytes written so far, the bytes rolled in so
\* far, and the checksum last returned
Digest32(d, loaded, tail) ==
    [fn |-> "Roll32", d |-> d, loaded |-> loaded, tail |-> tail, sum |-> finish(d)]

\* the byte at position j (from 1) of the stream
streamByte(j) == IF j <= call.window THEN call.fill ELSE result.tail[j - call.window]

\* Write: one byte of the first window is written
Write ==
    /\ call.fn = "Roll32"
    /\ result.loaded < call.window
    /\ result' = Digest32(update(result.d, call.fill), result.loaded + 1, <<>>)
    /\ UNCHANGED <<clientVars, storeVars, concVars, call>>

\* Roll32: the oldest byte of the window leaves and a new byte enters
Roll32 ==
    /\ call.fn = "Roll32"
    /\ result.loaded = call.window
    /\ Len(result.tail) < MaxRolls
    /\ \E newbyte \in RollBytes :
          LET oldbyte == streamByte(Len(result.tail) + 1)
          IN result' = Digest32(roll(result.d, call.window, oldbyte, newbyte),
                                result.loaded, Append(result.tail, newbyte))
    /\ UNCHANGED <<clientVars, storeVars, concVars, call>>

\* the sum of w(j) * streamByte(j) for j in from..to, modulo mod, where the
\* weight w(j) is 1 (weighted = FALSE) or the number of positions from j to
\* the end of the window last (weighted = TRUE)
RECURSIVE windowSum(_, _, _, _)
windowSum(from, to, last, weighted) ==
    IF from > to THEN 0
    ELSE IF from = to
    THEN ((IF weighted THEN last - from + 1 ELSE 1) * streamByte(from)) % mod
    ELSE LET mid == (from + to) \div 2
         IN (windowSum(from, mid, last, weighted)
             + windowSum(mid + 1, to, last, weighted)) % mod

\* Adler-32 of the current window by its definition: A is 1 plus the sum of
\* the bytes, B the sum of the values A takes, both modulo mod
WindowAdler32 ==
    LET first == Len(result.tail) + 1
        last == Len(result.tail) + call.window
        A == (1 + windowSum(first, last, last, FALSE)) % mod
        B == (call.window + windowSum(first, last, last, TRUE)) % mod
    IN <<B, A>>

\* C18: once the first window bytes were written, every checksum Roll32
\* returns is the Adler-32 of the current window computed from scratch.
C18_RollingEquivalence ==
    (result.fn = "Roll32" /\ result.loaded = call.window /\ Len(result.tail) > 0) =>
        result.sum = WindowAdler32

\* what Write establishes: the checksum of the first window is its Adler-32
Aux_LoadedChecksum ==
    (result.fn = "Roll32" /\ result.loaded = call.window /\ Len(result.tail) = 0) =>
        result.sum = WindowAdler32

\* what Roll32 establishes for the windows no checksum of which is reduced
Aux_SmallWindowRolling ==
    (result.fn = "Roll32" /\ call.window <= SmallWindow
        /\ result.loaded = call.window /\ Len(result.tail) > 0) =>
        result.sum = WindowAdler32

\* ------------------------------------------------------- the local Dump
\* A file name is the sequence of its pieces: the separator "/" and the
\* pieces of text between separators ("base2" is "base" followed by "2").
Sep == "/"
Cwd == <<Sep, "srv", Sep, "base">>

\* the elements of a file name between separators
RECURSIVE splitPath(_)
splitPath(name) ==
    IF name = <<>> THEN << <<>> >>
    ELSE LET rest == splitPath(Tail(name))
         IN IF Head(name) = Sep
            THEN << <<>> >> \o rest
            ELSE << <<Head(name)>> \o rest[1] >> \o Tail(rest)

\* the elements joined with separators
RECURSIVE joinPath(_)
joinPath(elems) ==
    IF elems = <<>> THEN <<>>
    ELSE IF Len(elems) = 1 THEN elems[1]
    ELSE elems[1] \o <<Sep>> \o joinPath(Tail(elems))

\* filepath.Clean on the elements: empty and "." elements are dropped, ".."
\* drops the element before it
RECURSIVE cleanElems(_, _, _)
cleanElems(elems, out, rooted) ==
    IF elems = <<>> THEN out
    ELSE LET e == Head(elems)
             kept == IF e = <<>> \/ e = <<".">> THEN out
                     ELSE IF e = <<"..">>
                     THEN IF out # <<>> /\ out[Len(out)] # <<"..">>
                          THEN SubSeq(out, 1, Len(out) - 1)
                          ELSE IF rooted THEN out ELSE Append(out, e)
                     ELSE Append(out, e)
         IN cleanElems(Tail(elems), kept, rooted)

IsAbs(name) == name # <<>> /\ name[1] = Sep

\* filepath.Clean
Clean(name) ==
    LET body == joinPath(cleanElems(splitPath(name), <<>>, IsAbs(name)))
    IN IF IsAbs(name) THEN <<Sep>> \o body
       ELSE IF body = <<>> THEN <<".">> ELSE body

\* filepath.Join
Join(dir, name) ==
    IF dir = <<>> THEN (IF name = <<>> THEN <<>> ELSE Clean(name))
    ELSE IF name = <<>> THEN Clean(dir)
    ELSE Clean(dir \o <<Sep>> \o name)

\* filepath.Abs
Abs(name) == IF IsAbs(name) THEN Clean(name) ELSE Join(Cwd, name)

\* filepath.HasPrefix: strings.HasPrefix
HasPrefix(name, prefix) ==
    Len(prefix) <= Len(name) /\ SubSeq(name, 1, Len(prefix)) = prefix

\* calcpath joins dir to filename to get a full path and fails if the result
\* is not within dir
calcpath(dir, filename) ==
    LET fullpath == Clean(Abs(Join(dir, filename)))
        fulldir == Abs(dir)
    IN IF ~HasPrefix(fullpath, fulldir)
       THEN [err |-> "Illegal filename", path |-> <<>>]
       ELSE [err |-> "", path |-> fullpath]

\* the file names asked for, the last of which names no file
MissingName == <<"missing">>
DumpNames ==
    { <<"f">>, <<"sub", Sep, "f">>, <<"..", Sep, "other", Sep, "f">>,
      <<"..", Sep, "base", "2", Sep, "f">>, <<"sub", Sep, "..", Sep, "f">>,
      MissingName }

\* the calls of LocalHashNDump.Dump: the directory served, a file name, an
\* offset and a slice size, and the bytes of the file named
DumpCalls ==
    [fn : {"Dump"}, dir : {<<".">>}, filename : DumpNames,
     offset : 0..(MaxLen + 1), size : 0..(MaxLen + 1), content : Contents]

\* LocalHashNDump.Dump: the slice's length N, the bytes its reader yields and
\* the file opened, or an error
hndDump(dir, filename, offset, size, content) ==
    LET cp == calcpath(dir, filename)
        toread == sliceFile(Len(content), offset, size)
    IN IF cp.err # ""
       THEN [fn |-> "Dump", err |-> cp.err, N |-> 0, bytes |-> <<>>, opened |-> <<>>]
       ELSE IF cp.path = Abs(Join(dir, MissingName))
       THEN [fn |-> "Dump", err |-> "open", N |-> 0, bytes |-> <<>>, opened |-> <<>>]
       ELSE [fn |-> "Dump", err |-> "", N |-> toread,
             bytes |-> dump(content, offset, size), opened |-> cp.path]

DumpCall ==
    /\ call.fn = "Dump"
    /\ result = NoResult
    /\ result' = hndDump(call.dir, call.filename, call.offset, call.size, call.content)
    /\ UNCHANGED <<clientVars, storeVars, concVars, call>>

\* the file named lies under the directory served: the elements of the
\* directory's full path are the first elements of the file's full path
UnderDir ==
    LET fulldir == splitPath(Abs(call.dir))
        fullpath == splitPath(Clean(Abs(Join(call.dir, call.filename))))
    IN Len(fulldir) <= Len(fullpath) /\ SubSeq(fullpath, 1, Len(fulldir)) = fulldir

\* C19: Dump returns an error and opens nothing for every file name whose
\* joined, cleaned absolute path is not under the directory served, a
\* sibling directory whose name starts with the served one's included.
C19_DumpStaysInDir ==
    (result.fn = "Dump" /\ ~UnderDir) => (result.err # "" /\ result.opened = <<>>)

\* what calcpath does refuse: paths that do not start with the text of the
\* served directory's path
Aux_DumpRefusesOtherPrefix ==
    (result.fn = "Dump" /\ call.filename = <<"..", Sep, "other", Sep, "f">>) =>
        (result.err = "Illegal filename" /\ result.opened = <<>>)

\* C20: for a file of n bytes Dump returns the length
\* max(0, min(size, n - offset)), where size 0 stands for n - offset, and a
\* stream of exactly the file's bytes from offset, that many.
C20_DumpLength ==
    (result.fn = "Dump" /\ result.err = "") =>
        LET n == Len(call.content)
            asked == IF call.size = 0 THEN n - call.offset ELSE call.size
            most == IF asked < n - call.offset THEN asked ELSE n - call.offset
            effective == IF most < 0 THEN 0 ELSE most
        IN /\ result.N = effective
           /\ result.bytes = SubSeq(call.content, call.offset + 1, call.offset + effective)

\* what Dump does establish: the stream is right for every offset, and the
\* length for the offsets within the file
Aux_DumpStream ==
    (result.fn = "Dump" /\ result.err = "") =>
        LET n == Len(call.content)
            asked == IF call.size = 0 THEN n - call.offset ELSE call.size
            most == IF asked < n - call.offset THEN asked ELSE n - call.offset
            effective == IF most < 0 THEN 0 ELSE most
        IN /\ result.bytes = SubSeq(call.content, call.offset + 1, call.offset + effective)
           /\ call.offset <= n => result.N = effective

hashDumpReadCalls ==
    [fn : {"hashDumpRead"}, filename : {RemoteName}, slice : Slices,
     size : 0..(MaxLen + 1), content : Contents]

\* hashDump is called on a file that may end, or fail, before its size
hashDumpReadCall ==
    /\ call.fn = "hashDumpRead"
    /\ result = NoResult
    /\ result' = [fn |-> "hashDumpRead",
                  lines |-> hashDumpRead(call.filename, call.slice, call.size,
                                         call.content)]
    /\ UNCHANGED <<clientVars, storeVars, concVars, call>>

\* the slices hashDump reads whole before the file ends
WholeSlices == Len(call.content) \div call.slice

\* C21: when reading the file fails in the middle of hashDump, the writer
\* writes one line starting with Error: after the lines of the slices read
\* so far and nothing after it, and a consumer gets an error at that line
\* whether it reads a slice hash or the total there.
C21_ErrorEndsDump ==
    (result.fn = "hashDumpRead" /\ Len(call.content) < call.size) =>
        LET lines == result.lines
            last == Len(lines)
            before == Reader(lines)
            at == [before EXCEPT !.at = last - 1]
        IN /\ last = HeaderLines + WholeSlices + 1
           /\ lines[last].tag = "Error"
           /\ \A i \in 1..(last - 1) : lines[i].tag # "Error"
           /\ \A i \in 1..WholeSlices :
                 lines[HeaderLines + i] =
                     Line("hash", Digest(SubSeq(call.content, (i - 1) * call.slice + 1,
                                                i * call.slice)))
           /\ readString(at).err = "Error:"
           /\ readAttribute(at, HasherName).err = "Error:"
           /\ \A i \in 0..(last - 2) :
                 readString([before EXCEPT !.at = i]).err = ""

C21_Witness ==
    /\ result.fn = "hashDumpRead"
    /\ call.size = 3
    /\ call.slice = 1
    /\ Len(call.content) = 1
    /\ Len(result.lines) = HeaderLines + 2

\* a file that has its size to read gives the hash dump of its first size
\* bytes
Aux_ReadWhole ==
    (result.fn = "hashDumpRead" /\ Len(call.content) >= call.size) =>
        result.lines = hashDump(call.filename, call.slice,
                                SubSeq(call.content, 1, call.size))

\* HashFile(basedir, filename, slice) as a whole, on a file that has the
\* bytes of content to read while its FileInfo says size: what it returns,
\* and what is then at the temporary and at the published name.  The
\* temporary file is new; was is the published hash dump before the call
HashFile(was, filename, slicesize, size, content, opens) ==
    IF ~opens
    THEN [err |-> "open", tmpFile |-> [exists |-> TRUE, lines |-> <<>>], hashFile |-> was]
    ELSE [err |-> "",
          tmpFile |-> [exists |-> FALSE, lines |-> <<>>],
          hashFile |-> [exists |-> TRUE,
                        lines |-> hashDumpRead(filename, slicesize, size, content)]]

HashFileCalls ==
    [fn : {"HashFile"}, filename : {RemoteName}, slice : Slices,
     size : 0..(MaxLen + 1), content : Contents, opens : BOOLEAN,
     was : {[exists |-> FALSE, lines |-> <<>>],
            [exists |-> TRUE, lines |-> hashDump(RemoteName, 1, <<>>)]}]

\* HashFile is called on a file
HashFileCall ==
    /\ call.fn = "HashFile"
    /\ result = NoResult
    /\ result' = [fn |-> "HashFile"] @@
                 HashFile(call.was, call.filename, call.slice, call.size, call.content,
                          call.opens)
    /\ UNCHANGED <<clientVars, storeVars, concVars, call>>

\* C25: HashFile publishes only a hash dump whose generation went through
\* without error: when reading the file fails in the middle, HashFile returns
\* an error and what is at the published name is what was there before.
C25_PublishesOnlyComplete ==
    (result.fn = "HashFile" /\ call.opens /\ Len(call.content) < call.size) =>
        /\ result.err # ""
        /\ result.hashFile = call.was

\* what does hold: a file that cannot be opened leaves the published name as
\* it was, and a file read to its end is published with its hash dump
Aux_HashFilePublishes ==
    result.fn = "HashFile" =>
        /\ ~call.opens => (result.err # "" /\ result.hashFile = call.was)
        /\ (call.opens /\ Len(call.content) >= call.size) =>
              /\ result.err = ""
              /\ result.hashFile.lines =
                     hashDump(call.filename, call.slice, SubSeq(call.content, 1, call.size))

\* the names of the hash dump store
Dot == <<".">>
SliceSyncExt == <<".slicesync">>
SlicesyncDir == SliceSyncExt
TmpSliceSyncExt == <<".tmp">> \o SliceSyncExt

\* filepath.Dir and filepath.Base
lastSep(name) ==
    LET seps == {i \in 1..Len(name) : name[i] = Sep}
    IN IF seps = {} THEN 0 ELSE CHOOSE i \in seps : \A j \in seps : j <= i
pathDir(name) == Clean(SubSeq(name, 1, lastSep(name)))
pathBase(name) ==
    LET elems == splitPath(name)
    IN elems[Len(elems)]

\* slicesyncDir returns the .slicesync based directory location of a directory
slicesyncDir(basedir, dir) == Join(Join(basedir, SlicesyncDir), dir)

\* SlicesyncFile returns the corresponding .slicesync file for filename
SlicesyncFile(basedir, filename) ==
    Join(slicesyncDir(basedir, pathDir(filename)), pathBase(filename) \o SliceSyncExt)

(***************************************************************************)
(* Probe splits a probed URL into the server base and the filename; the    *)
(* remote reader joins the two again with calcUrl.  A URL is the host      *)
(* followed by a path; the server answers a HEAD on <base>/.slicesync/     *)
(* with 200 for the one base directory it serves.                          *)
(***************************************************************************)
Host == <<"http://host">>

\* head: nil when the server answers 200, which it does for the .slicesync
\* directory under the base it serves
head(url, base) ==
    IF url = Host \o Join(base, SlicesyncDir) \o <<Sep>> THEN "" ELSE "Unexpected status"

\* calcUrl returns the Url for the remote file
calcUrl(server, filename) == server \o filename

\* the loop of Probe over the parent directories of fullpath
RECURSIVE probeParents(_, _, _)
probeParents(candidate, fullpath, base) ==
    IF ~(Len(candidate) > 0 /\ candidate # <<Sep>>)
    THEN [err |-> "does not seem to support slicesync", server |-> <<>>,
          filename |-> <<>>]
    ELSE IF head(Host \o Join(candidate, <<Sep>> \o SlicesyncDir) \o <<Sep>>, base) = ""
    THEN [err |-> "", server |-> Host \o candidate,
          filename |-> SubSeq(fullpath, Len(candidate) + 2, Len(fullpath))]
    ELSE probeParents(pathDir(candidate), fullpath, base)

\* Probe detects the server base url and separates the server url and the
\* filename of the url Host \o fullpath
Probe(fullpath, base) ==
    IF head(Host \o Join(<<Sep>>, SlicesyncDir) \o <<Sep>>, base) = ""
    THEN [err |-> "", server |-> Host \o <<Sep>>, filename |-> Tail(fullpath)]
    ELSE probeParents(pathDir(fullpath), fullpath, base)

\* the probed paths, and the directories above a path
ProbedPaths == {<<Sep, "f">>, <<Sep, "a", Sep, "f">>, <<Sep, "a", Sep, "b", Sep, "f">>}
RECURSIVE parents(_)
parents(name) ==
    IF name = <<Sep>> THEN {} ELSE {pathDir(name)} \cup parents(pathDir(name))

ProbeCalls ==
    {[fn |-> "Probe", fullpath |-> p, base |-> b] :
        p \in ProbedPaths, b \in {<<Sep>>, <<Sep, "a">>, <<Sep, "a", Sep, "b">>,
                                  <<Sep, "c">>}}

\* Probe is called on a url
ProbeCall ==
    /\ call.fn = "Probe"
    /\ result = NoResult
    /\ result' = [fn |-> "Probe"] @@ Probe(call.fullpath, call.base)
    /\ UNCHANGED <<clientVars, storeVars, concVars, call>>

\* the name of the probed file under the served base
underBase(fullpath, base) ==
    IF base = <<Sep>> THEN Tail(fullpath)
    ELSE SubSeq(fullpath, Len(base) + 2, Len(fullpath))

\* C29: whatever base directory above the probed file exposes .slicesync/,
\* the server and filename Probe returns, joined by calcUrl, give the probed
\* url, and joined through SlicesyncFile give the url of the file's hash dump
\* under that base.
C29_ProbeAddresses ==
    (result.fn = "Probe" /\ call.base \in parents(call.fullpath)) =>
        /\ result.err = ""
        /\ calcUrl(result.server, result.filename) = Host \o call.fullpath
        /\ calcUrl(result.server, SlicesyncFile(Dot, result.filename)) =
               Host \o Join(call.base,
                            SlicesyncFile(Dot, underBase(call.fullpath, call.base)))

\* what does hold: the base is found and the filename is the name under it;
\* with the base at the root the two urls are right, and a server whose base
\* is not above the file is refused
Aux_ProbeAtRoot ==
    result.fn = "Probe" =>
        /\ call.base \in parents(call.fullpath) =>
              /\ result.err = ""
              /\ result.filename = underBase(call.fullpath, call.base)
              /\ result.server = Host \o call.base
        /\ call.base = <<Sep>> =>
              /\ calcUrl(result.server, result.filename) = Host \o call.fullpath
              /\ calcUrl(result.server, SlicesyncFile(Dot, result.filename)) =
                     Host \o Join(call.base, SlicesyncFile(Dot, result.filename))
        /\ call.base \notin parents(call.fullpath) => result.err # ""

(***************************************************************************)
(* HashFile under a base directory.  The process runs in Cwd; a relative   *)
(* name handed to os.Open or os.OpenFile is resolved against Cwd.          *)
(***************************************************************************)
\* the files HashFile can meet: the one at basedir/filename, and what is at
\* filename under the working directory
filesUnder(basedir, filename, atBase, atCwd) ==
    (Abs(Join(basedir, filename)) :> File(atBase)) @@ (Abs(filename) :> atCwd)

\* os.Open(name)
osOpen(fs, name) == fs[Abs(name)]

\* HashFile(basedir, filename, slice) over those files: err, the place of the
\* published hash dump and what is published there
HashFileIn(basedir, filename, slicesize, atBase, atCwd) ==
    LET file == osOpen(filesUnder(basedir, filename, atBase, atCwd), filename)
        r == HashFile([exists |-> FALSE, lines |-> <<>>], filename, slicesize,
                      Len(file.data), file.data, file.exists)
    IN [err |-> r.err, at |-> Abs(SlicesyncFile(basedir, filename)),
        hashFile |-> r.hashFile]

BaseDirs == {Dot, <<"sub">>, <<Sep, "srv", Sep, "other">>}
RelNames == {<<"f">>, <<"d", Sep, "f">>}

HashFileInCalls ==
    [fn : {"HashFileIn"}, basedir : BaseDirs, filename : RelNames, slice : Slices,
     atBase : Contents, atCwd : {Absent, File(<<0>>), File(<<1, 0>>)}]

\* HashFile is called with a base directory
HashFileInCall ==
    /\ call.fn = "HashFileIn"
    /\ result = NoResult
    /\ result' = [fn |-> "HashFileIn"] @@
                 HashFileIn(call.basedir, call.filename, call.slice, call.atBase,
                            call.atCwd)
    /\ UNCHANGED <<clientVars, storeVars, concVars, call>>

\* C30: whatever the base directory, the working directory or another one,
\* HashFile(base, rel, slice) publishes at base/.slicesync/<dir of rel>/
\* <name>.slicesync the hash dump of the content of the file at base/rel.
C30_HashesUnderBase ==
    result.fn = "HashFileIn" =>
        /\ result.err = ""
        /\ result.at = Abs(call.basedir) \o <<Sep>> \o SlicesyncDir \o <<Sep>>
                           \o call.filename \o SliceSyncExt
        /\ result.hashFile.lines = hashDump(call.filename, call.slice, call.atBase)

\* what does hold: the place of the hash dump is under the base, and with the
\* working directory as base the hash dump is of the file under the base
Aux_HashesUnderCwd ==
    result.fn = "HashFileIn" =>
        /\ result.at = Abs(call.basedir) \o <<Sep>> \o SlicesyncDir \o <<Sep>>
                           \o call.filename \o SliceSyncExt
        /\ call.basedir = Dot =>
              /\ result.err = ""
              /\ result.hashFile.lines =
                     hashDump(call.filename, call.slice, call.atBase)

FuncInit ==
    /\ ClientIdle
    /\ StoreIdle
    /\ ConcIdle
    /\ call \in hashDumpCalls \cup readHeaderCalls \cup Roll32Calls \cup DumpCalls
                  \cup hashDumpReadCalls \cup HashFileCalls \cup ProbeCalls
                  \cup HashFileInCalls
    /\ result = IF call.fn = "Roll32" THEN Digest32(digestReset, 0, <<>>) ELSE NoResult

FuncNext ==
    \/ hashDumpCall
    \/ readHeaderCall
    \/ Write
    \/ Roll32
    \/ DumpCall
    \/ hashDumpReadCall
    \/ HashFileCall
    \/ ProbeCall
    \/ HashFileInCall

FuncSpec == FuncInit /\ [][FuncNext]_vars

(***************************************************************************)
(* The hashing service: HashDir keeps, under .slicesync, one hash dump     *)
(* file for every file of the served directory that is bigger than a       *)
(* slice.  File names are the sequences of atoms of the local Dump above:  *)
(* separators, the extensions and the rest of each element.                *)
(***************************************************************************)
HashSlice == 1      \* the slice HashDir is run with
MaxChanges == 1     \* files created or deleted in the served directory
MaxRuns == 2        \* HashDir runs

\* tmpSlicesyncFile returns the corresponding temporary .tmp.slicesync file
tmpSlicesyncFile(basedir, filename) ==
    Join(slicesyncDir(basedir, pathDir(filename)), pathBase(filename) \o TmpSliceSyncExt)

\* strings.Replace(filename, ".slicesync/", "", -1)
RECURSIVE dropSlicesyncDirs(_)
dropSlicesyncDirs(name) ==
    IF Len(name) < 2 THEN name
    ELSE IF name[1] = SlicesyncDir[1] /\ name[2] = Sep
    THEN dropSlicesyncDirs(SubSeq(name, 3, Len(name)))
    ELSE <<name[1]>> \o dropSlicesyncDirs(Tail(name))

\* strings.Replace(filename, ".slicesync", "", 1)
RECURSIVE dropFirstExt(_)
dropFirstExt(name) ==
    IF name = <<>> THEN name
    ELSE IF name[1] = SliceSyncExt[1] THEN Tail(name)
    ELSE <<name[1]>> \o dropFirstExt(Tail(name))

\* file4slicesync returns the file or directory that corresponds to this
\* slicesync file
file4slicesync(filename) == dropFirstExt(dropSlicesyncDirs(filename))

\* the served directory is the working directory; it has one subdirectory
SourceDirs == { <<"sub">> }
SourceFiles == { <<"f">>, <<"f", ".tmp">>, <<"sub", Sep, "f">> }
ShadowFiles ==
    {SlicesyncFile(Dot, name) : name \in SourceFiles}
        \cup {tmpSlicesyncFile(Dot, name) : name \in SourceFiles}
ShadowDirs == {slicesyncDir(Dot, d) : d \in SourceDirs}

\* a file of the served directory: its bytes, its modification time and
\* whether it can be opened for reading
NoFile == [exists |-> FALSE, data |-> <<>>, mtime |-> 0, locked |-> FALSE]
SmallFile == [i \in 1..HashSlice |-> 0]
BigFile == [i \in 1..(HashSlice + 1) |-> i % 2]
StoredFile(content, mtime, locked) ==
    [exists |-> TRUE, data |-> content, mtime |-> mtime, locked |-> locked]

\* a hash dump file: its lines and its modification time
NoShadow == [exists |-> FALSE, lines |-> <<>>, mtime |-> 0]
ShadowFile(lines, mtime) == [exists |-> TRUE, lines |-> lines, mtime |-> mtime]

\* os.Lstat of a name, stored or not
lstat(name) == IF name \in DOMAIN store THEN store[name] ELSE NoFile
lstatShadow(name) == IF name \in DOMAIN shadow THEN shadow[name] ELSE NoShadow

\* exists of slicesync.go on the served directory
existsInDir(name) == name \in SourceDirs \/ lstat(name).exists

\* isHashFileValid returns true if there is a valid hash dump file for f
isHashFileValid(f, hfilename) ==
    LET hdump == lstatShadow(hfilename)
    IN hdump.exists /\ ~(hdump.mtime < f.mtime)

\* needsHashing returns true only if there isn't a hash for filename at basedir
needsHashing(f, size, basedir, filename) ==
    IF f.exists /\ Len(f.data) > size
    THEN ~isHashFileValid(f, SlicesyncFile(basedir, filename))
    ELSE FALSE

\* what foreachFileInDir reads from a directory of the served tree (the
\* .slicesync directory itself is read too, and left alone by hashDir)
listDir(dir) ==
    {n \in SourceFiles \cup SourceDirs : pathDir(n) = dir /\ existsInDir(n)}

\* what foreachFileInDir reads from a directory of the shadow tree
listShadowDir(sh, hdir) ==
    {n \in DOMAIN sh : pathDir(n) = hdir /\ sh[n].exists}
        \cup {d \in ShadowDirs : pathDir(d) = hdir}

\* the clean up of hashDir: every entry of hdir whose file or directory is
\* gone is removed, with everything under it (os.RemoveAll)
cleanUp(sh, hdir) ==
    LET gone == {e \in listShadowDir(sh, hdir) : ~existsInDir(file4slicesync(e))}
    IN [n \in DOMAIN sh |->
          IF \E e \in gone : n = e \/ HasPrefix(n, e \o <<Sep>>)
          THEN NoShadow ELSE sh[n]]

NoHashFile == [filename |-> <<>>, lines |-> <<>>, flushed |-> 0]
HashDirIdle ==
    [pc |-> "idle", reldir |-> <<>>, todo |-> {}, saved |-> {}, depth |-> 0,
     hf |-> NoHashFile, err |-> "", visits |-> {}]

\* HashDir(".", HashSlice, true): MkdirAll, then hashDir on the base directory
\* up to its first directory entry
HashDirStart ==
    /\ hd.pc \in {"idle", "done"}
    /\ env.runs < MaxRuns
    /\ env' = [env EXCEPT !.runs = @ + 1, !.dirty = FALSE]
    /\ shadow' = cleanUp(shadow, slicesyncDir(Dot, <<>>))
    /\ hd' = [HashDirIdle EXCEPT !.pc = "scan", !.todo = listDir(Join(Dot, <<>>))]
    /\ UNCHANGED <<clientVars, funcVars, concVars, store, served>>

\* what the scan notes of an entry: whether HashFile ran, and whether the file
\* is bigger than a slice and has a valid hash dump where HashFile publishes it
Visit(filename, f, invoked) ==
    [filename |-> filename, invoked |-> invoked,
     big |-> Len(f.data) > HashSlice,
     valid |-> isHashFileValid(f, SlicesyncFile(Dot, filename))]

\* hashDir on an entry that needs hashing: HashFile up to its first write.
\* The temporary file is created when there is none; when the file cannot be
\* opened HashFile fails, foreachFileInDir stops and HashDir returns the error
ScanHash ==
    /\ hd.pc = "scan"
    /\ \E fi \in hd.todo :
          LET dir == Join(Dot, hd.reldir)
              filename == Join(hd.reldir, pathBase(fi))
              f == lstat(fi)
              tmpFile == tmpSlicesyncFile(Dot, filename)
          IN /\ fi \in SourceFiles
             /\ needsHashing(f, HashSlice, dir, filename)
             /\ shadow' = IF shadow[tmpFile].exists THEN shadow
                          ELSE [shadow EXCEPT ![tmpFile] = ShadowFile(<<>>, env.clock)]
             /\ IF lstat(filename).locked \/ ~lstat(filename).exists
                THEN hd' = [hd EXCEPT !.pc = "done",
                                      !.err = "open " \o "failed",
                                      !.todo = {},
                                      !.saved = {},
                                      !.visits = @ \cup {Visit(filename, f, TRUE)}]
                ELSE hd' = [hd EXCEPT !.pc = "hashing",
                                      !.todo = @ \ {fi},
                                      !.hf = [filename |-> filename,
                                              lines |-> hashDump(<<pathBase(filename)>>,
                                                                 HashSlice,
                                                                 lstat(filename).data),
                                              flushed |-> 0],
                                      !.visits = @ \cup {Visit(filename, f, TRUE)}]
    /\ UNCHANGED <<clientVars, funcVars, concVars, store, env, served>>

\* hashDump flushes after each slice line: the header goes out with the first
HashFileFlush ==
    /\ hd.pc = "hashing"
    /\ LET tmpFile == tmpSlicesyncFile(Dot, hd.hf.filename)
           upto == IF hd.hf.flushed = 0 THEN HeaderLines + 1 ELSE hd.hf.flushed + 1
           chunk == SubSeq(hd.hf.lines, hd.hf.flushed + 1, upto)
       IN /\ upto < Len(hd.hf.lines)
          /\ shadow' = [shadow EXCEPT ![tmpFile] =
                           ShadowFile(writeAt(shadow[tmpFile].lines, hd.hf.flushed, chunk),
                                      env.clock)]
          /\ hd' = [hd EXCEPT !.hf.flushed = upto]
    /\ UNCHANGED <<clientVars, funcVars, concVars, store, env, served>>

\* the end of HashFile: the last flush, the Close and the Rename of the
\* temporary file to the hash dump file
HashFileFinish ==
    /\ hd.pc = "hashing"
    /\ LET tmpFile == tmpSlicesyncFile(Dot, hd.hf.filename)
           hashFile == SlicesyncFile(Dot, hd.hf.filename)
           upto == IF hd.hf.flushed = 0 THEN HeaderLines + 1 ELSE hd.hf.flushed + 1
           chunk == SubSeq(hd.hf.lines, hd.hf.flushed + 1, Len(hd.hf.lines))
           written == ShadowFile(writeAt(shadow[tmpFile].lines, hd.hf.flushed, chunk),
                                 env.clock)
       IN /\ upto >= Len(hd.hf.lines)
          /\ shadow' = [shadow EXCEPT ![tmpFile] = NoShadow, ![hashFile] = written]
          /\ hd' = [hd EXCEPT !.pc = "scan", !.hf = NoHashFile]
    /\ UNCHANGED <<clientVars, funcVars, concVars, store, env, served>>

\* hashDir on a directory entry: hashDir on the subdirectory, up to its first
\* directory entry
ScanRecurse ==
    /\ hd.pc = "scan"
    /\ \E fi \in hd.todo :
          LET reldir == Join(hd.reldir, pathBase(fi))
          IN /\ fi \in SourceDirs
             /\ shadow' = cleanUp(shadow, slicesyncDir(Dot, reldir))
             /\ hd' = [hd EXCEPT !.reldir = reldir,
                                 !.depth = @ + 1,
                                 !.saved = hd.todo \ {fi},
                                 !.todo = listDir(Join(Dot, reldir))]
    /\ UNCHANGED <<clientVars, funcVars, concVars, store, env, served>>

\* hashDir on an entry that needs no hashing
ScanSkip ==
    /\ hd.pc = "scan"
    /\ \E fi \in hd.todo :
          LET dir == Join(Dot, hd.reldir)
              filename == Join(hd.reldir, pathBase(fi))
              f == lstat(fi)
          IN /\ fi \in SourceFiles
             /\ ~needsHashing(f, HashSlice, dir, filename)
             /\ hd' = [hd EXCEPT !.todo = @ \ {fi},
                                 !.visits = @ \cup {Visit(filename, f, FALSE)}]
    /\ UNCHANGED <<clientVars, funcVars, concVars, store, shadow, env, served>>

\* foreachFileInDir is through: hashDir returns nil to the hashDir that called
\* it, or to HashDir
ScanEnd ==
    /\ hd.pc = "scan"
    /\ hd.todo = {}
    /\ hd' = IF hd.depth > 0
             THEN [hd EXCEPT !.reldir = <<>>, !.depth = 0, !.todo = hd.saved, !.saved = {}]
             ELSE [hd EXCEPT !.pc = "done"]
    /\ UNCHANGED <<clientVars, funcVars, concVars, store, shadow, env, served>>

\* LocalHashNDump.Hash: the hash dump of a served file, when it is valid
Hash ==
    /\ \E filename \in SourceFiles :
          LET f == lstat(filename)
              hfile == SlicesyncFile(Dot, filename)
          IN /\ f.exists
             /\ isHashFileValid(f, hfile)
             /\ served' = [name |-> filename, lines |-> shadow[hfile].lines]
    /\ UNCHANGED <<clientVars, funcVars, concVars, store, shadow, hd, env>>

\* the served directory changes between two runs of HashDir: a file is
\* created or written anew
Create ==
    /\ hd.pc \in {"idle", "done"}
    /\ env.changes < MaxChanges
    /\ \E filename \in SourceFiles, content \in {SmallFile, BigFile}, locked \in BOOLEAN :
          /\ locked => content = BigFile
          /\ store' = [store EXCEPT ![filename] = StoredFile(content, env.clock + 1, locked)]
    /\ env' = [env EXCEPT !.clock = @ + 1, !.changes = @ + 1, !.dirty = TRUE]
    /\ UNCHANGED <<clientVars, funcVars, concVars, shadow, hd, served>>

\* a file of the served directory is deleted
Delete ==
    /\ hd.pc \in {"idle", "done"}
    /\ env.changes < MaxChanges
    /\ \E filename \in SourceFiles :
          /\ store[filename].exists
          /\ store' = [store EXCEPT ![filename] = NoFile]
    /\ env' = [env EXCEPT !.clock = @ + 1, !.changes = @ + 1, !.dirty = TRUE]
    /\ UNCHANGED <<clientVars, funcVars, concVars, shadow, hd, served>>

HashInit ==
    /\ ClientIdle
    /\ ConcIdle
    /\ call = NoCall
    /\ result = NoResult
    /\ store \in [SourceFiles -> {NoFile, StoredFile(SmallFile, 0, FALSE),
                                  StoredFile(BigFile, 0, FALSE)}]
    /\ shadow = [n \in ShadowFiles |-> NoShadow]
    /\ hd = HashDirIdle
    /\ env = [clock |-> 0, changes |-> 0, runs |-> 0, dirty |-> FALSE]
    /\ served = NoServed

HashNext ==
    \/ HashDirStart
    \/ ScanHash
    \/ HashFileFlush
    \/ HashFileFinish
    \/ ScanRecurse
    \/ ScanSkip
    \/ ScanEnd
    \/ Hash
    \/ Create
    \/ Delete

HashSpec == HashInit /\ [][HashNext]_vars

\* the files of the served directory HashDir has to keep a hash dump of
NeedsDump(name) == store[name].exists /\ Len(store[name].data) > HashSlice

\* a HashDir run is through and the served directory is as the run left it
RunDone == hd.pc = "done" /\ ~env.dirty

\* C17: when fingerprinting one file fails during HashDir, HashDir goes on
\* with the remaining files of the scan before it returns the error: every
\* file of the served directory has been visited when the run is through.
C17_ContinuesAfterFailure ==
    (RunDone /\ hd.err # "") =>
        \A name \in SourceFiles :
            store[name].exists => \E v \in hd.visits : v.filename = name

\* what does hold: a run without error has visited every file, and a run
\* with an error has visited the file that cannot be opened
Aux_StopsAtFirstFailure ==
    RunDone =>
        IF hd.err = ""
        THEN \A name \in SourceFiles :
                 store[name].exists => \E v \in hd.visits : v.filename = name
        ELSE \E v \in hd.visits : v.invoked /\ store[v.filename].locked

\* C16: HashDir invokes HashFile on a file exactly when the file is bigger
\* than a slice and its published hash dump is not fresh (there is none, or
\* it is older than the file), in the base directory and in subdirectories;
\* so a second run over an unchanged directory regenerates nothing.
C16_HashFileWhenDue ==
    \A v \in hd.visits : v.invoked <=> (v.big /\ ~v.valid)

\* what does hold: HashFile is invoked exactly when due on the files of the
\* base directory, and on every file of a subdirectory bigger than a slice
Aux_HashFileWhenDueInBase ==
    \A v \in hd.visits :
        IF pathDir(v.filename) = Dot
        THEN v.invoked <=> (v.big /\ ~v.valid)
        ELSE v.invoked <=> v.big

\* the hash dump files whose file or directory is gone
Orphans == {h \in DOMAIN shadow : shadow[h].exists /\ ~existsInDir(file4slicesync(h))}

\* the files bigger than a slice that have no valid hash dump
Unhashed ==
    {name \in SourceFiles :
        NeedsDump(name) /\ ~isHashFileValid(store[name], SlicesyncFile(Dot, name))}

\* C15: after files were created and deleted, in the base directory or in a
\* subdirectory, and a recursive HashDir run from the served directory is
\* through without a change under it, every file bigger than a slice has a
\* valid published hash dump and no hash dump is left in the shadow tree for
\* a file that is gone.
C15_FingerprintRefresh ==
    (RunDone /\ hd.err = "") => (Unhashed = {} /\ Orphans = {})

\* what does hold: a run removes every orphan, and leaves a valid hash dump
\* for every big file when no file of the directory is named like the
\* temporary file of another (x and x.tmp)
Aux_RefreshWithoutTmpNames ==
    (RunDone /\ hd.err = "") =>
        /\ Orphans = {}
        /\ (\A name \in SourceFiles :
               store[name].exists =>
                   \A other \in SourceFiles :
                       store[other].exists =>
                           SlicesyncFile(Dot, name) # tmpSlicesyncFile(Dot, other))
              => Unhashed = {}

\* the complete output of a HashFile run on some file of the directory
Complete(lines) ==
    \E name \in SourceFiles, content \in {<<>>, SmallFile, BigFile} :
        lines = hashDump(<<pathBase(name)>>, HashSlice, content)

\* C14: while HashDir and HashFile run, a reader that opens the published
\* hash dump of a served file never gets a half-written hash dump: what it
\* gets is the complete output of a finished HashFile run, and never the
\* data of a temporary file.
C14_AtomicPublication ==
    served # NoServed => Complete(served.lines)

\* what does hold: the hash dump read for a file whose published name is not
\* the temporary name of another file is the complete hash dump of that file
Aux_AtomicWithoutTmpNames ==
    (/\ served # NoServed
     /\ \A other \in SourceFiles :
           SlicesyncFile(Dot, served.name) # tmpSlicesyncFile(Dot, other))
        => \E content \in {SmallFile, BigFile} :
              served.lines = hashDump(<<pathBase(served.name)>>, HashSlice, content)

(***************************************************************************)
(* The sync of a remote file that changes under it: after the client has   *)
(* read the remote hash dump, the served file gets one byte longer or one  *)
(* byte shorter.                                                           *)
(***************************************************************************)
RemoteChange ==
    /\ pc \in {"DownloadDiffs", "copy"}
    /\ env.changes = 0
    /\ \E c \in {Append(rfile, b) : b \in Bytes}
                  \cup {SubSeq(rfile, 1, Len(rfile) - 1) : n \in 1..min(1, Len(rfile))} :
          /\ Len(c) <= MaxLen
          /\ rfile' = c
    /\ env' = [env EXCEPT !.clock = @ + 1, !.changes = @ + 1, !.dirty = TRUE]
    /\ UNCHANGED <<argVars, files, ldump, rdump, pc, diffVars, diffs, copyVars, tampered,
                   ret, funcVars, concVars, store, shadow, hd, served>>

ChangeNext ==
    \/ SlicesyncDirect
    \/ NaiveDiffsOpen
    \/ diffsBuilderLoop
    \/ diffsBuilderEnd
    \/ NaiveDiffsTotals
    \/ Tamper
    \/ RemoteChange
    \/ DownloadDiffsOpen
    \/ DownloadDiffsCopy
    \/ SlicesyncCheck

ChangeSpec == Init /\ [][ChangeNext]_vars

\* the bytes of the Diffs DownloadDiffs has copied whole
CopiedWhole == SumSizes(SubSeq(diffs.Diffs, 1, next - 1))

\* C22: when the stream opened for a Diff delivers fewer bytes than the
\* Diff's size, DownloadDiffs returns an error at once: no later Diff is
\* copied, no hash and no plan is returned, and the destination file stays
\* with the bytes written so far.
C22_ShortReadStops ==
    /\ pc = "copy" => Len(sink) = CopiedWhole
    /\ (pc = "done" /\ ret.err = "Download error") =>
          /\ next <= Len(diffs.Diffs)
          /\ CopiedWhole <= Len(sink)
          /\ Len(sink) < CopiedWhole + diffs.Diffs[next].Size
          /\ ret = Failure("Download error")
          /\ files[destfile].exists
          /\ SubSeq(files[destfile].data, 1, Len(sink)) = sink

C22_Witness ==
    /\ pc = "done"
    /\ ret.err = "Download error"
    /\ env.changes = 1
    /\ next = 2
    /\ Len(sink) = CopiedWhole
    /\ Len(sink) > 0
    /\ diffs.Diffs[next].Different

\* C23: when the length of the remote file changes after the client has read
\* the remote hash dump and before the reconstruction ends, the sync does
\* not succeed: Slicesync returns the hash check error.
C23_RemoteLengthChange ==
    (pc = "done" /\ env.changes > 0) => ret.err = "Hash check failed"

\* what does hold: after such a change a sync that succeeds has written the
\* file the remote hash dump was made of, and a sync that fails reports a
\* short download or the hash check
Aux_RemoteLengthChange ==
    (pc = "done" /\ env.changes > 0) =>
        IF ret.status = "ok"
        THEN Digest(sink) = RemoteTotal.val
        ELSE ret.err \in {"Download error", "Hash check failed"}

(***************************************************************************)
(* The local hash dump streamed through an in-process pipe.  The producer  *)
(* goroutine of LocalHashNDump.Hash copies the lines of the hash dump file *)
(* into a buffered writer over the pipe; the consumer (NaiveDiffs) reads   *)
(* some of them and closes the read end when it returns.  A Write on the   *)
(* pipe blocks until a Read has taken all of it or the read end is closed. *)
(***************************************************************************)
MaxLines == 5       \* the lines of the hash dump file
BufLines == 2       \* the lines bufW holds before it writes to the pipe

\* the pipe as io.Pipe returns it, over a hash dump of n lines of which the
\* consumer will ask for want
NewPipe(n, want) ==
    [src |-> [i \in 1..n |-> i],    \* the lines of the file
     at |-> 0,                      \* the lines io.Copy has read
     buf |-> <<>>,                  \* bufW
     offered |-> <<>>,              \* the Write the producer is blocked in
     werr |-> FALSE,                \* the error bufW keeps after a failed Write
     wclosed |-> FALSE,             \* w.Close() was called
     rclosed |-> FALSE,             \* lc.Close() was called
     wpc |-> "copy",                \* the producer: copy, flush, close, done
     rpc |-> "read",                \* the consumer: read, eof, closed
     want |-> want,
     got |-> <<>>]                  \* the lines the consumer has read

\* the consumer returns without closing the read end
readerLeave(p) == [p EXCEPT !.rpc = "closed"]

\* the consumer returns: its deferred lc.Close() closes the read end
readerClose(p) == [p EXCEPT !.rpc = "closed", !.rclosed = TRUE]

\* io.Copy(bufW, file), one line: the line goes to bufW, which is written to
\* the pipe first when it is full; after a failed Write io.Copy returns
ProducerCopy ==
    /\ pipe.wpc = "copy"
    /\ pipe.offered = <<>>
    /\ IF pipe.werr \/ pipe.at = Len(pipe.src)
       THEN pipe' = [pipe EXCEPT !.wpc = "flush"]
       ELSE IF Len(pipe.buf) = BufLines
       THEN pipe' = [pipe EXCEPT !.offered = pipe.buf, !.buf = <<>>]
       ELSE pipe' = [pipe EXCEPT !.buf = Append(@, pipe.src[pipe.at + 1]),
                                 !.at = @ + 1]
    /\ UNCHANGED <<clientVars, funcVars, storeVars, gor>>

\* the deferred bufW.Flush()
ProducerFlush ==
    /\ pipe.wpc = "flush"
    /\ pipe' = IF pipe.werr \/ pipe.buf = <<>>
               THEN [pipe EXCEPT !.wpc = "close"]
               ELSE [pipe EXCEPT !.wpc = "close", !.offered = pipe.buf, !.buf = <<>>]
    /\ UNCHANGED <<clientVars, funcVars, storeVars, gor>>

\* a Write on the pipe whose read end is closed returns io.ErrClosedPipe
ProducerFail ==
    /\ pipe.wpc # "off"
    /\ pipe.offered # <<>>
    /\ pipe.rclosed
    /\ pipe' = [pipe EXCEPT !.offered = <<>>, !.werr = TRUE]
    /\ UNCHANGED <<clientVars, funcVars, storeVars, gor>>

\* the deferred w.Close() and file.Close(): the goroutine ends
ProducerClose ==
    /\ pipe.wpc = "close"
    /\ pipe.offered = <<>>
    /\ pipe' = [pipe EXCEPT !.wpc = "done", !.wclosed = TRUE]
    /\ UNCHANGED <<clientVars, funcVars, storeVars, gor>>

\* a Read of the consumer takes some or all of what the producer writes
ConsumerRead ==
    /\ pipe.wpc # "off"
    /\ pipe.rpc = "read"
    /\ Len(pipe.got) < pipe.want
    /\ pipe.offered # <<>>
    /\ \E k \in 1..Len(pipe.offered) :
          pipe' = [pipe EXCEPT !.got = @ \o SubSeq(pipe.offered, 1, k),
                               !.offered = SubSeq(@, k + 1, Len(@))]
    /\ UNCHANGED <<clientVars, funcVars, storeVars, gor>>

\* a Read of the consumer on the pipe whose write end is closed: EOF
ConsumerEOF ==
    /\ pipe.wpc # "off"
    /\ pipe.rpc = "read"
    /\ Len(pipe.got) < pipe.want
    /\ pipe.offered = <<>>
    /\ pipe.wclosed
    /\ pipe' = [pipe EXCEPT !.rpc = "eof"]
    /\ UNCHANGED <<clientVars, funcVars, storeVars, gor>>

\* the consumer has what it asked for, or the end: it returns
ConsumerReturn ==
    /\ pipe.wpc # "off"
    /\ \/ pipe.rpc = "read" /\ Len(pipe.got) >= pipe.want
       \/ pipe.rpc = "eof"
    /\ pipe' = readerClose(pipe)
    /\ UNCHANGED <<clientVars, funcVars, storeVars, gor>>

PipeInit ==
    /\ ClientIdle
    /\ call = NoCall
    /\ result = NoResult
    /\ StoreIdle
    /\ gor = [main |-> "off"]
    /\ \E n \in 0..MaxLines, want \in 0..(MaxLines + 1) : pipe = NewPipe(n, want)

PipeNext ==
    \/ ProducerCopy
    \/ ProducerFlush
    \/ ProducerFail
    \/ ProducerClose
    \/ ConsumerRead
    \/ ConsumerEOF
    \/ ConsumerReturn

\* both goroutines are scheduled as long as they can take a step
PipeSpec ==
    /\ PipeInit
    /\ [][PipeNext]_vars
    /\ WF_vars(ProducerCopy \/ ProducerFlush \/ ProducerFail \/ ProducerClose)
    /\ WF_vars(ConsumerRead \/ ConsumerEOF \/ ConsumerReturn)

\* what the consumer has read is the start of the hash dump, and all of it
\* when it has read to the end
InOrder ==
    /\ Len(pipe.got) <= Len(pipe.src)
    /\ pipe.got = SubSeq(pipe.src, 1, Len(pipe.got))
    /\ pipe.rpc = "eof" => pipe.got = pipe.src

\* C24: the goroutine that streams the local hash dump through the pipe
\* always ends: the consumer gets the lines in order, all of them, flushed
\* before the pipe is closed, when it reads to the end, and the goroutine is
\* unblocked and ends when the consumer stops early and closes the read end.
C24_ProducerTerminates ==
    /\ []InOrder
    /\ <>(pipe.wpc = "done")

C24_Witness ==
    /\ pipe.wpc = "done"
    /\ pipe.werr
    /\ pipe.rclosed
    /\ Len(pipe.got) = 1
    /\ pipe.at = BufLines
    /\ pipe.at < Len(pipe.src)

\* the consumer that reads to the end gets every line
Aux_ReadToEnd ==
    (pipe.wpc # "off" /\ pipe.rpc = "eof") => (pipe.got = pipe.src /\ pipe.wpc = "done")

(***************************************************************************)
(* A served file written while HashFile reads it: HashFile has read the    *)
(* file as it was, the file gets other bytes of the same length, and       *)
(* HashFile writes the rest of the hash dump after that.                   *)
(***************************************************************************)
OtherBigFile == [i \in 1..(HashSlice + 1) |-> 1 - BigFile[i]]

Modify ==
    /\ hd.pc = "hashing"
    /\ env.changes < MaxChanges
    /\ store[hd.hf.filename].data = BigFile
    /\ store' = [store EXCEPT ![hd.hf.filename] =
                    StoredFile(OtherBigFile, env.clock + 1, FALSE)]
    /\ env' = [env EXCEPT !.clock = @ + 1, !.changes = @ + 1, !.dirty = TRUE]
    /\ UNCHANGED <<clientVars, funcVars, concVars, shadow, hd, served>>

\* one file bigger than a slice in the base directory, or in the subdirectory
ModifyInit ==
    /\ ClientIdle
    /\ ConcIdle
    /\ call = NoCall
    /\ result = NoResult
    /\ \E big \in SourceFiles :
          store = [name \in SourceFiles |->
                      IF name = big THEN StoredFile(BigFile, 0, FALSE) ELSE NoFile]
    /\ shadow = [n \in ShadowFiles |-> NoShadow]
    /\ hd = HashDirIdle
    /\ env = [clock |-> 0, changes |-> 0, runs |-> 0, dirty |-> FALSE]
    /\ served = NoServed

ModifyNext ==
    \/ HashDirStart
    \/ ScanHash
    \/ Modify
    \/ HashFileFlush
    \/ HashFileFinish
    \/ ScanRecurse
    \/ ScanSkip
    \/ ScanEnd
    \/ Hash

ModifySpec == ModifyInit /\ [][ModifyNext]_vars

\* the published hash dump of a file is the hash dump of its bytes
Describes(name) ==
    LET hdump == lstatShadow(SlicesyncFile(Dot, name))
    IN hdump.exists /\ hdump.lines = hashDump(<<pathBase(name)>>, HashSlice, store[name].data)

\* C26: when a file bigger than a slice was written while it was hashed and
\* then stays as it is, the runs of HashDir that follow publish a hash dump
\* of its final bytes: once a run made after the last write is through, the
\* published hash dump describes the file, and a hash dump of its older
\* bytes does not stay valid.
C26_Converges ==
    (RunDone /\ hd.err = "") =>
        \A name \in SourceFiles : NeedsDump(name) => Describes(name)

\* what does hold: the hash dump of a file that is not written while it is
\* hashed describes it when the run is through
Aux_DescribesUnwritten ==
    (RunDone /\ hd.err = "" /\ env.changes = 0) =>
        \A name \in SourceFiles : NeedsDump(name) => Describes(name)

(***************************************************************************)
(* The revision of Slicesync that runs its steps on goroutines joined by   *)
(* unbuffered channels: the remote hash (rhashch), the copy of alike       *)
(* (copych), one remote slice hash per iteration of CalcDiffs (ch) and the *)
(* hash of the destination fed by Download's progress (progressch,         *)
(* lhashch).  A send on an unbuffered channel completes only together with *)
(* a receive; a receive on a closed channel yields the zero value.         *)
(***************************************************************************)
GoSlice == 2        \* the slice argument of the concurrent Slicesync
MaxBytes == 3       \* the longest remote file of the concurrent Slicesync

\* Slicesync entered with alike settled (lines 101-110): nodiffs stands for
\* slice == 0 || !exists(alike), flen for the length of the remote file
NewGo(nodiffs, flen) ==
    [main |-> "start", nodiffs |-> nodiffs, flen |-> flen,
     Size |-> AUTOSIZE, Diffs |-> <<>>, indiff |-> FALSE, cpos |-> 0,
     rh |-> "off", cp |-> "off", ch |-> "off", lh |-> "off",
     sent |-> 0, closed |-> FALSE, hpos |-> 0, err |-> ""]

\* go hashnback(..., rhashch); then either the single whole-file Diff or
\* the copy goroutine and the call of CalcDiffs
SlicesyncStart ==
    /\ gor.main = "start"
    /\ gor' = IF gor.nodiffs
              THEN [gor EXCEPT !.rh = "send",
                               !.Diffs = <<[Offset |-> 0, Size |-> AUTOSIZE]>>,
                               !.main = "check"]
              ELSE [gor EXCEPT !.rh = "send", !.cp = "send", !.main = "CalcDiffs"]
    /\ UNCHANGED <<clientVars, funcVars, storeVars, pipe>>

\* the head of CalcDiffs' loop: go hashnback(diffs, filename, pos, slice, ch)
CalcDiffsSpawn ==
    /\ gor.main = "CalcDiffs"
    /\ gor.cpos = 0 \/ gor.cpos < gor.Size
    /\ gor' = [gor EXCEPT !.ch = "send", !.main = "localHash"]
    /\ UNCHANGED <<clientVars, funcVars, storeVars, pipe>>

\* localHnd.Hash(alike, pos, slice): on an error CalcDiffs returns at once
\* and Slicesync returns the error
CalcDiffsLocalHash ==
    /\ gor.main = "localHash"
    /\ \E ok \in BOOLEAN :
          gor' = IF ok THEN [gor EXCEPT !.main = "recvch"]
                 ELSE [gor EXCEPT !.main = "returned", !.err = "local hash"]
    /\ UNCHANGED <<clientVars, funcVars, storeVars, pipe>>

\* remote := <-ch together with hashnback's send; then the bookkeeping of
\* the slice and pos += slice
CalcDiffsReceive ==
    /\ gor.main = "recvch"
    /\ gor.ch = "send"
    /\ \E ok \in BOOLEAN, differ \in BOOLEAN :
          gor' = IF ~ok
                 THEN [gor EXCEPT !.ch = "done", !.main = "returned", !.err = "remote hash"]
                 ELSE LET n == Len(gor.Diffs)
                          grown == [gor.Diffs EXCEPT ![n].Size = @ + GoSlice]
                      IN [gor EXCEPT
                            !.ch = "done",
                            !.Size = IF gor.Size = AUTOSIZE THEN gor.flen ELSE @,
                            !.Diffs = IF gor.indiff
                                      THEN (IF differ THEN grown ELSE @)
                                      ELSE (IF differ
                                            THEN Append(@, [Offset |-> gor.cpos,
                                                            Size |-> GoSlice])
                                            ELSE @),
                            !.indiff = differ,
                            !.cpos = @ + GoSlice,
                            !.main = "CalcDiffs"]
    /\ UNCHANGED <<clientVars, funcVars, storeVars, pipe>>

\* CalcDiffs returns its diffs; Slicesync goes on to err = <-copych
CalcDiffsReturn ==
    /\ gor.main = "CalcDiffs"
    /\ ~(gor.cpos = 0 \/ gor.cpos < gor.Size)
    /\ gor' = [gor EXCEPT !.main = "copych"]
    /\ UNCHANGED <<clientVars, funcVars, storeVars, pipe>>

\* err = <-copych together with the copy goroutine's ch <- err
CopyReceive ==
    /\ gor.main = "copych"
    /\ gor.cp = "send"
    /\ \E ok \in BOOLEAN :
          gor' = IF ok THEN [gor EXCEPT !.cp = "done", !.main = "check"]
                 ELSE [gor EXCEPT !.cp = "done", !.main = "returned", !.err = "copy"]
    /\ UNCHANGED <<clientVars, funcVars, storeVars, pipe>>

\* the short circuit on no differences, else go hashWithProgress(dst,
\* diffs.Size, progressch, lhashch) and the call of Download
SlicesyncShortCircuit ==
    /\ gor.main = "check"
    /\ gor' = IF Len(gor.Diffs) = 0
              THEN [gor EXCEPT !.main = "returned"]
              ELSE [gor EXCEPT !.lh = "open", !.main = "Download"]
    /\ UNCHANGED <<clientVars, funcVars, storeVars, pipe>>

\* what copyNClose copies for the diff: the remote has flen bytes, and an
\* AUTOSIZE dump is the whole file
doneOf(diff, flen) ==
    IF diff.Size = AUTOSIZE THEN flen - diff.Offset
    ELSE min(diff.Size, IF flen > diff.Offset THEN flen - diff.Offset ELSE 0)

\* one turn of Download's loop up to the progress send: Dump, writeAt and
\* copyNClose; on an error Download returns through the deferred
\* close(progressch) and Slicesync returns the error
DownloadDiff ==
    /\ gor.main = "Download"
    /\ gor.sent < Len(gor.Diffs)
    /\ \E ok \in BOOLEAN :
          gor' = IF ok THEN [gor EXCEPT !.main = "progress"]
                 ELSE [gor EXCEPT !.closed = TRUE, !.main = "returned",
                                  !.err = "download"]
    /\ UNCHANGED <<clientVars, funcVars, storeVars, pipe>>

\* Download returns after its last diff: the deferred close(progressch),
\* then Slicesync goes on to remote := <-rhashch
DownloadReturn ==
    /\ gor.main = "Download"
    /\ gor.sent = Len(gor.Diffs)
    /\ gor' = [gor EXCEPT !.closed = TRUE, !.main = "rhashch"]
    /\ UNCHANGED <<clientVars, funcVars, storeVars, pipe>>

\* the body of hashWithProgress' loop after progressed = <-progressch, and
\* the loop test that follows it; readok is the outcome of io.CopyN
hashProgressed(g, value, readok) ==
    LET progressed == IF value = 0 \/ value > g.Size THEN g.Size ELSE value
    IN IF progressed > g.hpos
       THEN (IF ~readok THEN [g EXCEPT !.lh = "send"]
             ELSE [g EXCEPT !.hpos = progressed,
                            !.lh = IF progressed < g.Size THEN "recv" ELSE "send"])
       ELSE [g EXCEPT !.lh = IF g.hpos < g.Size THEN "recv" ELSE "send"]

\* progressch <- (diff.Offset + done) together with progressed = <-progressch
Progress ==
    /\ gor.main = "progress"
    /\ gor.lh = "recv"
    /\ \E readok \in BOOLEAN :
          LET diff == gor.Diffs[gor.sent + 1]
              value == diff.Offset + doneOf(diff, gor.flen)
          IN gor' = hashProgressed([gor EXCEPT !.main = "Download", !.sent = @ + 1],
                                   value, readok)
    /\ UNCHANGED <<clientVars, funcVars, storeVars, pipe>>

\* os.Open(filename) in hashWithProgress: on an error it goes to send the
\* error on ch, else it enters the loop for pos < size
hashWithProgressOpen ==
    /\ gor.lh = "open"
    /\ \E ok \in BOOLEAN :
          gor' = [gor EXCEPT !.lh = IF ok /\ 0 < gor.Size THEN "recv" ELSE "send"]
    /\ UNCHANGED <<clientVars, funcVars, storeVars, pipe>>

\* progressed = <-progressch on the closed channel: the zero value
ProgressClosed ==
    /\ gor.lh = "recv"
    /\ gor.closed
    /\ \E readok \in BOOLEAN : gor' = hashProgressed(gor, 0, readok)
    /\ UNCHANGED <<clientVars, funcVars, storeVars, pipe>>

\* remote := <-rhashch together with hashnback's send
RemoteReceive ==
    /\ gor.main = "rhashch"
    /\ gor.rh = "send"
    /\ \E ok \in BOOLEAN :
          gor' = IF ok THEN [gor EXCEPT !.rh = "done", !.main = "lhashch"]
                 ELSE [gor EXCEPT !.rh = "done", !.main = "returned",
                                  !.err = "remote hash"]
    /\ UNCHANGED <<clientVars, funcVars, storeVars, pipe>>

\* local := <-lhashch together with hashWithProgress' send; Slicesync
\* returns with the outcome of the comparison
LocalReceive ==
    /\ gor.main = "lhashch"
    /\ gor.lh = "send"
    /\ \E ok \in BOOLEAN :
          gor' = [gor EXCEPT !.lh = "done", !.main = "returned",
                             !.err = IF ok THEN "" ELSE "local hash"]
    /\ UNCHANGED <<clientVars, funcVars, storeVars, pipe>>

GoInit ==
    /\ ClientIdle
    /\ call = NoCall
    /\ result = NoResult
    /\ StoreIdle
    /\ pipe = [wpc |-> "off"]
    /\ \E nodiffs \in BOOLEAN, flen \in 0..MaxBytes : gor = NewGo(nodiffs, flen)

GoNext ==
    \/ SlicesyncStart
    \/ CalcDiffsSpawn
    \/ CalcDiffsLocalHash
    \/ CalcDiffsReceive
    \/ CalcDiffsReturn
    \/ CopyReceive
    \/ SlicesyncShortCircuit
    \/ DownloadDiff
    \/ DownloadReturn
    \/ Progress
    \/ hashWithProgressOpen
    \/ ProgressClosed
    \/ RemoteReceive
    \/ LocalReceive

GoSpec == GoInit /\ [][GoNext]_vars

\* no goroutine can take a step any more
GoStuck == ~ENABLED GoNext

\* C27: every call of the concurrent Slicesync terminates: when nothing can
\* move any more Slicesync has returned, so Download is not blocked on its
\* progress send, and the hasher is not blocked on the send of its result.
C27_SyncTerminates ==
    GoStuck => (gor.main = "returned" /\ gor.lh \in {"off", "done"})

\* what does hold: a call that went through Download and received both
\* hashes leaves neither the downloader nor the hasher behind
Aux_ReceivedBoth ==
    (gor.main = "returned" /\ gor.lh = "done") => (gor.closed /\ gor.rh = "done")

\* C28: every remote-hash goroutine that was started has its result
\* received: when nothing can move any more none of them is still blocked
\* on its send.
C28_RemoteHashReceived ==
    GoStuck => (gor.rh \in {"off", "done"} /\ gor.ch \in {"off", "done"})

\* what does hold: inside CalcDiffs a remote error is received before the
\* return, so the slice goroutine is left behind only by a local hash error
Aux_SliceHashLeak ==
    (gor.main = "returned" /\ gor.ch = "send") => gor.err = "local hash"

====
